---- MODULE Spec2Model ----
(***************************************************************************)
(* Model of the streaming chat orchestration of Proma's Electron main      *)
(* process: chat-service.ts (sendMessage, stopGeneration,                  *)
(* stopAllGenerations, executeMemoryToolCall) together with the            *)
(* collaborators it drives (history store, renderer event sink, stream     *)
(* reader, memory tool backend).                                           *)
(*                                                                         *)
(* JavaScript runs every synchronous stretch of a handler to completion,   *)
(* so each action below is one such stretch: from one await (or the call)  *)
(* to the next await (or the return).                                      *)
(***************************************************************************)
EXTENDS Integers, Sequences, FiniteSets, TLC

(* ---------------------------------------------------------------------- *)
(* Bounds of the model and constants of the program                        *)
(* ---------------------------------------------------------------------- *)

\* number of sendMessage invocations
MaxSends == 2
\* number of chunk deltas one send receives over all its rounds
MaxContent == 2
\* the same, where one send is driven by every provider, store and backend
\* behaviour (Spec)
MaxContentDriven == 1
\* number of tool calls the provider returns to one send over all its rounds
MaxCalls == 5
\* number of reasoning deltas one send receives over all its rounds
MaxReasoning == 2

\* number of messages in a history handed to filterHistory
MaxHistory == 3
\* number of ids in a contextDividers list
MaxDividers == 2
\* number of frames of one stream handed to parseSSELine
MaxFrames == 2
\* number of tool calls of one send that run through the memory client
MaxMemCalls == 2
\* number of events the stream reader hands to onEvent during one send
MaxEvents == 3
\* checkForUpdates / downloadUpdate promises pending at one time
MaxPending == 2
\* calls of initAutoUpdater, the first one included
MaxInits == 2

\* chat-service.ts:86
MAX_TOOL_ROUNDS == 5

Sends == 1..MaxSends
Convs == {"c1", "c2"}
\* a chunk delta is one character; " " stands for any whitespace
Chars == {"a", " "}
\* names the provider may put in a tool call: a memory tool, and one not offered
ToolNames == {"recall_memory", "other_tool"}
StopReasons == {"tool_use", "end_turn", "none"}

\* absent controller in the registry, absent messageId in an event
None == 0

\* no pure function is being called
NoCall == [fn |-> "none"]

VARIABLES
  sends,              \* per invocation: the locals of sendMessage and what it emitted
  store,              \* history store: conversation id -> appended messages
  activeControllers,  \* registry: conversation id -> controller (named by its send)
  stoppedAll,         \* history: stopAllGenerations has run and no sendMessage
                      \* call has started since
  call                \* a call of one of the pure functions: arguments and result

vars == <<sends, store, activeControllers, stoppedAll, call>>

(* ---------------------------------------------------------------------- *)
(* Pure helpers                                                            *)
(* ---------------------------------------------------------------------- *)

SetMin(S) == CHOOSE x \in S : \A y \in S : x <= y
SetMax(S) == CHOOSE x \in S : \A y \in S : x >= y

\* String.prototype.trim
Trim(str) ==
  LET idx == {i \in 1..Len(str) : str[i] # " "}
  IN IF idx = {} THEN <<>> ELSE SubSeq(str, SetMin(idx), SetMax(idx))

\* randomUUID(): a fresh id per call; the three calls of one invocation
UserMsgId(s) == 10 * s + 1
AssistantMsgId(s) == 10 * s + 2
PartialMsgId(s) == 10 * s + 3
SenderOf(id) == id \div 10

ToolCall(r, i, n) == [id |-> 10 * r + i, name |-> n]

(* ---------------------------------------------------------------------- *)
(* State of one invocation                                                 *)
(* ---------------------------------------------------------------------- *)

InitSend ==
  [ pc |-> "idle",            \* idle, enrich, proxy, stream, tool, done, threw
    conv |-> "c1",
    historyRead |-> FALSE,    \* getConversationMessages has been called
    history |-> <<>>,         \* fullHistory: what getConversationMessages returned
    round |-> 0,
    cycles |-> 0,             \* buildStreamRequest/streamSSE cycles performed
    accumulatedContent |-> <<>>,
    accumulatedReasoning |-> <<>>,
    chunks |-> <<>>,          \* history: the chunk events delivered, in arrival order
    reasonings |-> <<>>,      \* history: the reasoning events delivered, likewise
    roundStart |-> 0,         \* length of accumulatedContent when the round began
    toolCalls |-> <<>>,       \* tool calls of the running stream / returned by it
    toolIdx |-> 0,            \* position of the tool call being executed
    nCalls |-> 0,             \* tool calls the provider has started so far
    toolResults |-> <<>>,
    continuationMessages |-> <<>>,
    request |-> <<>>,         \* continuation messages carried by the last request
    terminal |-> <<>>,        \* STREAM_COMPLETE / STREAM_ERROR events emitted
    late |-> FALSE,           \* a non-terminal event was emitted after a terminal one
    activity |-> [type |-> "none", toolCallId |-> 0, result |-> "", isError |-> FALSE],
                              \* the last STREAM_TOOL_ACTIVITY event emitted
    signal |-> "none" ]       \* "none", or where the send was when abort() was called

Aborted(snd) == snd.signal # "none"

\* webContents.send of a terminal event
SendTerminal(snd, type, messageId) ==
  [snd EXCEPT !.terminal = Append(@, [type |-> type, messageId |-> messageId])]

\* webContents.send of STREAM_CHUNK, of STREAM_REASONING
SendEvent(snd) == [snd EXCEPT !.late = @ \/ snd.terminal # <<>>]

\* webContents.send of STREAM_TOOL_ACTIVITY
SendActivity(snd, type, toolCallId, result, isError) ==
  [snd EXCEPT !.late = @ \/ snd.terminal # <<>>,
              !.activity = [type |-> type, toolCallId |-> toolCallId,
                            result |-> result, isError |-> isError]]

(* ---------------------------------------------------------------------- *)
(* History store                                                           *)
(* ---------------------------------------------------------------------- *)

\* an assistant ChatMessage; reasoning <<>>: the field is undefined
AssistantMessage(id, content, reasoning, stopped) ==
  [id |-> id, role |-> "assistant", content |-> content, reasoning |-> reasoning,
   stopped |-> stopped]

Message(id, role, content, stopped) ==
  [id |-> id, role |-> role, content |-> content, reasoning |-> <<>>,
   stopped |-> stopped]

\* appendMessage that succeeded
appendMessage(log, msg) == Append(log, msg)


(* ---------------------------------------------------------------------- *)
(* sendMessage: the sequential code between two awaits                     *)
(* A world W is what one stretch of code reads and writes:                 *)
(*   snd  the invocation's locals,  log  the history of its conversation,  *)
(*   reg  the registry activeControllers.                                  *)
(* ---------------------------------------------------------------------- *)

World(s) ==
  [snd |-> sends[s], log |-> store[sends[s].conv], reg |-> activeControllers]

\* what is left of an invocation once sendMessage has returned or thrown: its
\* locals are gone; what it emitted and its controller's signal remain
Returned(snd) ==
  [InitSend EXCEPT
     !.pc = snd.pc, !.conv = snd.conv, !.historyRead = snd.historyRead,
     !.cycles = snd.cycles,
     !.accumulatedContent = snd.accumulatedContent,
     !.accumulatedReasoning = snd.accumulatedReasoning,
     !.chunks = snd.chunks, !.reasonings = snd.reasonings,
     !.terminal = snd.terminal, !.late = snd.late, !.activity = snd.activity,
     !.signal = snd.signal]

\* a finally block that forgets activeControllers.delete
FinallyKeepsHandle(W) == [W EXCEPT !.snd = Returned(@)]

\* finally { activeControllers.delete(conversationId) }, and the return
Finally(W) ==
  [W EXCEPT !.reg = [@ EXCEPT ![W.snd.conv] = None], !.snd = Returned(@)]

\* an abort branch that drops the partial content
PersistOnAbortNever(content) == FALSE

\* if (accumulatedContent) in the abort branch
PersistOnAbort(content) == content # <<>>

\* a normal path that tests the content without trimming it
PersistOnFinishUntrimmed(content) == content # <<>>

\* if (accumulatedContent.trim()) on the normal path
PersistOnFinish(content) == Trim(content) # <<>>

\* a catch block that saves the partial content on every failure
CatchPersistsOnError(s, W, ap) ==
  LET snd == W.snd IN
  Finally(
    IF PersistOnAbort(snd.accumulatedContent)
    THEN IF ap
         THEN [W EXCEPT
                !.log = appendMessage(@, AssistantMessage(PartialMsgId(s),
                                           snd.accumulatedContent,
                                           snd.accumulatedReasoning, TRUE)),
                !.snd = [SendTerminal(snd, IF Aborted(snd) THEN "complete" ELSE "error",
                                      PartialMsgId(s))
                           EXCEPT !.pc = "done"]]
         ELSE [W EXCEPT !.snd.pc = "threw"]
    ELSE [W EXCEPT !.snd = [SendTerminal(snd, IF Aborted(snd) THEN "complete"
                                                               ELSE "error", None)
                              EXCEPT !.pc = "done"]])

\* catch (error) { ... } finally { ... };  ap: the store's append succeeds
Catch(s, W, ap) ==
  LET snd == W.snd IN
  Finally(
    IF Aborted(snd)
    THEN IF PersistOnAbort(snd.accumulatedContent)
         THEN IF ap
              THEN [W EXCEPT
                     !.log = appendMessage(@, AssistantMessage(PartialMsgId(s),
                                                snd.accumulatedContent,
                                                snd.accumulatedReasoning, TRUE)),
                     !.snd = [SendTerminal(snd, "complete", PartialMsgId(s))
                                EXCEPT !.pc = "done"]]
              ELSE [W EXCEPT !.snd.pc = "threw"]
         ELSE [W EXCEPT !.snd = [SendTerminal(snd, "complete", None)
                                   EXCEPT !.pc = "done"]]
    ELSE [W EXCEPT !.snd = [SendTerminal(snd, "error", None) EXCEPT !.pc = "done"]])

\* a step 10 that names the assistant message in STREAM_COMPLETE whether or
\* not it was saved
FinalizeNamesUnsaved(s, W, ap1, ap2) ==
  LET snd == W.snd IN
  IF PersistOnFinish(snd.accumulatedContent)
  THEN IF ap1
       THEN Finally([W EXCEPT
              !.log = appendMessage(@, AssistantMessage(AssistantMsgId(s),
                                         snd.accumulatedContent,
                                         snd.accumulatedReasoning, FALSE)),
              !.snd = [SendTerminal(snd, "complete", AssistantMsgId(s))
                         EXCEPT !.pc = "done"]])
       ELSE Catch(s, W, ap2)
  ELSE Finally([W EXCEPT !.snd = [SendTerminal(snd, "complete", AssistantMsgId(s))
                                    EXCEPT !.pc = "done"]])

\* step 10: save the assistant message, emit STREAM_COMPLETE
\* ap1, ap2: the appends of the normal path and of the catch block succeed
Finalize(s, W, ap1, ap2) ==
  LET snd == W.snd IN
  IF PersistOnFinish(snd.accumulatedContent)
  THEN IF ap1
       THEN Finally([W EXCEPT
              !.log = appendMessage(@, AssistantMessage(AssistantMsgId(s),
                                         snd.accumulatedContent,
                                         snd.accumulatedReasoning, FALSE)),
              !.snd = [SendTerminal(snd, "complete", AssistantMsgId(s))
                         EXCEPT !.pc = "done"]])
       ELSE Catch(s, W, ap2)
  ELSE Finally([W EXCEPT !.snd = [SendTerminal(snd, "complete", None)
                                    EXCEPT !.pc = "done"]])

\* a loop condition that is off by one
LoopGuardOffByOne(round) == round <= MAX_TOOL_ROUNDS

\* while (round < MAX_TOOL_ROUNDS)
LoopGuard(round) == round < MAX_TOOL_ROUNDS

\* a loop that starts each round with empty accumulators
LoopHeadResets(s, W, ap1, ap2) ==
  IF LoopGuard(W.snd.round)
  THEN [W EXCEPT !.snd = [@ EXCEPT
          !.round = @ + 1,
          !.cycles = @ + 1,
          !.request = W.snd.continuationMessages,
          !.accumulatedContent = <<>>,
          !.accumulatedReasoning = <<>>,
          !.roundStart = 0,
          !.toolCalls = <<>>,
          !.toolIdx = 0,
          !.pc = "stream"]]
  ELSE Finalize(s, W, ap1, ap2)

\* head of the tool continuation loop: next request, or leave the loop
LoopHead(s, W, ap1, ap2) ==
  IF LoopGuard(W.snd.round)
  THEN [W EXCEPT !.snd = [@ EXCEPT
          !.round = @ + 1,
          !.cycles = @ + 1,
          !.request = W.snd.continuationMessages,
          !.roundStart = Len(W.snd.accumulatedContent),
          !.toolCalls = <<>>,
          !.toolIdx = 0,
          !.pc = "stream"]]
  ELSE Finalize(s, W, ap1, ap2)

\* if (tc.name === 'recall_memory' || tc.name === 'add_memory')
DispatchedTool(name) == name \in {"recall_memory", "add_memory"}

\* executeMemoryToolCall; threw: the memory backend call threw
\* content: "result" for the search result or the stored notice, "failed" for
\* 'Tool execution failed: ...', "unknown" for 'Unknown tool: ...'
executeMemoryToolCall(toolCall, threw) ==
  IF toolCall.name \in {"recall_memory", "add_memory"}
  THEN IF threw
       THEN [toolCallId |-> toolCall.id, content |-> "failed", isError |-> TRUE]
       ELSE [toolCallId |-> toolCall.id, content |-> "result", isError |-> FALSE]
  ELSE [toolCallId |-> toolCall.id, content |-> "unknown", isError |-> TRUE]

AssistantTurn(content, toolCalls) ==
  [role |-> "assistant", content |-> content, toolCalls |-> toolCalls, results |-> <<>>]

\* a tool turn that leaves the results out
ToolTurnEmpty(results) ==
  [role |-> "tool", content |-> <<>>, toolCalls |-> <<>>, results |-> <<>>]

ToolTurn(results) ==
  [role |-> "tool", content |-> <<>>, toolCalls |-> <<>>, results |-> results]

\* a continuation list that keeps the last round only
ExtendContinuationReplaces(continuationMessages, content, toolCalls, toolResults) ==
  <<AssistantTurn(content, toolCalls), ToolTurn(toolResults)>>

\* continuationMessages = [...continuationMessages, {assistant}, {tool}]
ExtendContinuation(continuationMessages, content, toolCalls, toolResults) ==
  continuationMessages \o <<AssistantTurn(content, toolCalls), ToolTurn(toolResults)>>

\* the round's text, as streamSSE returns it
RoundContent(snd) ==
  SubSeq(snd.accumulatedContent, snd.roundStart + 1, Len(snd.accumulatedContent))

\* an iteration that takes the tool calls from the end
NextToolFromEnd(todo) == SetMax(todo)

\* for (const tc of toolCalls): the next of the positions still to execute
NextTool(todo) == SetMin(todo)

\* for (const tc of toolCalls), from position i up to the next await
RunTools(s, W, i, ap1, ap2) ==
  LET snd == W.snd
      todo == {j \in i..Len(snd.toolCalls) : DispatchedTool(snd.toolCalls[j].name)}
  IN IF todo # {}
     THEN [W EXCEPT !.snd = [@ EXCEPT !.pc = "tool", !.toolIdx = NextTool(todo)]]
     ELSE LoopHead(s,
            [W EXCEPT !.snd = [@ EXCEPT
               !.continuationMessages =
                  ExtendContinuation(@, RoundContent(snd), snd.toolCalls,
                                     snd.toolResults)]],
            ap1, ap2)

Commit(s, W) ==
  /\ sends' = [sends EXCEPT ![s] = W.snd]
  /\ store' = [store EXCEPT ![W.snd.conv] = W.log]
  /\ activeControllers' = W.reg
  /\ UNCHANGED <<stoppedAll, call>>


(* ---------------------------------------------------------------------- *)
(* Actions                                                                 *)
(* ---------------------------------------------------------------------- *)

Init ==
  /\ sends = [s \in Sends |-> InitSend]
  /\ store = [c \in Convs |-> <<>>]
  /\ activeControllers = [c \in Convs |-> None]
  /\ stoppedAll = FALSE
  /\ call = NoCall

\* a sendMessage that stores the user message before it looks up the channel
SendMessageStoresFirst(s, c, channel, key, rd, ap) ==
  /\ sends[s].pc = "idle"
  /\ \A t \in Sends : t < s => sends[t].pc # "idle"
  /\ stoppedAll' = FALSE
  /\ UNCHANGED <<call, activeControllers>>
  /\ store' = [store EXCEPT ![c] =
                 appendMessage(@, Message(UserMsgId(s), "user", <<>>, FALSE))]
  /\ LET snd == [sends[s] EXCEPT !.conv = c, !.historyRead = TRUE] IN
     sends' = [sends EXCEPT ![s] =
                 IF ~channel \/ ~key
                 THEN [SendTerminal(snd, "error", None) EXCEPT !.pc = "done"]
                 ELSE [snd EXCEPT !.pc = "enrich"]]

\* a history that is read after the user message was appended
HistoryReadAfterAppend(log, userMsg) == appendMessage(log, userMsg)

\* const fullHistory = getConversationMessages(conversationId), evaluated
\* before appendMessage(conversationId, userMsg)
HistoryRead(log, userMsg) == log

\* sendMessage is called: steps 1 to 5, up to the first await.
\*   channel, key: the channel exists, its API key decrypts
\*   rd, ap: getConversationMessages / appendMessage of the user message succeed
SendMessage(s, c, channel, key, rd, ap) ==
  /\ sends[s].pc = "idle"
  /\ \A t \in Sends : t < s => sends[t].pc # "idle"
  /\ stoppedAll' = FALSE
  /\ UNCHANGED call
  /\ LET snd == [sends[s] EXCEPT !.conv = c] IN
     IF ~channel \/ ~key
     THEN /\ sends' = [sends EXCEPT ![s] =
                         [SendTerminal(snd, "error", None) EXCEPT !.pc = "done"]]
          /\ UNCHANGED <<store, activeControllers>>
     ELSE IF ~rd \/ ~ap
     THEN /\ sends' = [sends EXCEPT ![s] =
                         [snd EXCEPT !.pc = "threw", !.historyRead = TRUE]]
          /\ UNCHANGED <<store, activeControllers>>
     ELSE LET userMsg == Message(UserMsgId(s), "user", <<>>, FALSE) IN
          /\ sends' = [sends EXCEPT ![s] =
                         [snd EXCEPT !.pc = "enrich", !.historyRead = TRUE,
                                     !.history = HistoryRead(store[c], userMsg)]]
          /\ store' = [store EXCEPT ![c] = appendMessage(@, userMsg)]
          /\ UNCHANGED activeControllers

\* a registration that leaves an existing mapping in place
RegisterKeepsPrevious(s, ok) ==
  /\ sends[s].pc = "enrich"
  /\ LET W == [World(s) EXCEPT
                 !.reg = [@ EXCEPT ![sends[s].conv] = IF @ = None THEN s ELSE @]] IN
     Commit(s, IF ok THEN [W EXCEPT !.snd.pc = "proxy"]
                     ELSE Catch(s, W, TRUE))

\* step 6: the document enrichment has resolved; the controller is created and
\* registered, and the code runs on to await getEffectiveProxyUrl().
\*   ok: getAdapter and getMemoryConfig (steps 7, 8) did not throw
Register(s, ok) ==
  /\ sends[s].pc = "enrich"
  /\ LET W == [World(s) EXCEPT !.reg = [@ EXCEPT ![sends[s].conv] = s]] IN
     Commit(s, IF ok THEN [W EXCEPT !.snd.pc = "proxy"]
                     ELSE Catch(s, W, TRUE))

\* getEffectiveProxyUrl() settles; ok: it resolved. The loop is entered.
ProxyResolved(s, ok, ap1, ap2) ==
  /\ sends[s].pc = "proxy"
  /\ Commit(s, IF ok THEN LoopHead(s, World(s), ap1, ap2)
                     ELSE Catch(s, World(s), ap2))

\* The stream reader hands over events and results only while the signal has
\* not fired; once it has, the pending read is abandoned and streamSSE rejects.
StreamDelivers(snd) == ~Aborted(snd)

\* The tool calls of a stream result: assembled on the terminal done event only.
\* stopReason "none": the stream ended without one.
StreamToolCalls(stopReason, open) == IF stopReason = "none" THEN <<>> ELSE open

\* onEvent({type: 'chunk', delta})
StreamChunk(s, delta) ==
  /\ sends[s].pc = "stream"
  /\ StreamDelivers(sends[s])
  /\ Len(sends[s].accumulatedContent) < MaxContent
  /\ sends' = [sends EXCEPT ![s] =
                 SendEvent([@ EXCEPT
                    !.accumulatedContent = Append(@, delta),
                    !.chunks = Append(@, [round |-> sends[s].round, delta |-> delta])])]
  /\ UNCHANGED <<store, activeControllers, stoppedAll, call>>

\* onEvent({type: 'reasoning', delta})
StreamReasoning(s, delta) ==
  /\ sends[s].pc = "stream"
  /\ StreamDelivers(sends[s])
  /\ Len(sends[s].accumulatedReasoning) < MaxReasoning
  /\ sends' = [sends EXCEPT ![s] =
                 SendEvent([@ EXCEPT
                    !.accumulatedReasoning = Append(@, delta),
                    !.reasonings = Append(@, [round |-> sends[s].round,
                                              delta |-> delta])])]
  /\ UNCHANGED <<store, activeControllers, stoppedAll, call>>

\* onEvent({type: 'tool_call_start', toolCallId, toolName})
StreamToolCallStart(s, name) ==
  /\ sends[s].pc = "stream"
  /\ StreamDelivers(sends[s])
  /\ sends[s].nCalls < MaxCalls
  /\ LET tc == ToolCall(sends[s].round, Len(sends[s].toolCalls) + 1, name) IN
     sends' = [sends EXCEPT ![s] =
                 SendActivity([@ EXCEPT !.nCalls = @ + 1,
                                        !.toolCalls = Append(@, tc)],
                              "start", tc.id, "", FALSE)]
  /\ UNCHANGED <<store, activeControllers, stoppedAll, call>>

\* a loop exit that does not look at the stop reason
LoopExitIgnoresStopReason(toolCalls, stopReason) == toolCalls = <<>>

\* if (!toolCalls || toolCalls.length === 0 || stopReason !== 'tool_use') break
LoopExit(toolCalls, stopReason) == toolCalls = <<>> \/ stopReason # "tool_use"

\* the loop of sendMessage from the point where streamSSE resolved up to its
\* next await: the loop is left, or the tool calls are gone through
AfterStream(s, stopReason, ap1, ap2) ==
  LET toolCalls == StreamToolCalls(stopReason, sends[s].toolCalls)
      W == [World(s) EXCEPT !.snd.toolCalls = toolCalls, !.snd.toolResults = <<>>]
  IN IF LoopExit(toolCalls, stopReason)
     THEN Finalize(s, W, ap1, ap2)
     ELSE RunTools(s, W, 1, ap1, ap2)

\* streamSSE resolves with {content, reasoning, toolCalls, stopReason}
StreamReturn(s, stopReason, ap1, ap2) ==
  /\ sends[s].pc = "stream"
  /\ StreamDelivers(sends[s])
  /\ Commit(s, AfterStream(s, stopReason, ap1, ap2))

\* streamSSE rejects: a transport failure, or the read aborted by the signal
StreamThrow(s, ap) ==
  /\ sends[s].pc = "stream"
  /\ Commit(s, Catch(s, World(s), ap))

\* the loop of sendMessage from the point where executeMemoryToolCall gave
\* result up to its next await: the result is pushed and sent to the UI, and
\* the remaining tool calls are gone through
AfterTool(s, W, result, ap1, ap2) ==
  RunTools(s,
           [W EXCEPT
              !.snd = SendActivity([@ EXCEPT !.toolResults = Append(@, result)],
                                   "result", result.toolCallId, result.content,
                                   result.isError)],
           W.snd.toolIdx + 1, ap1, ap2)

\* await executeMemoryToolCall(tc, memoryConfig) resolves
ToolReturn(s, threw, ap1, ap2) ==
  /\ sends[s].pc = "tool"
  /\ LET snd == sends[s]
         result == executeMemoryToolCall(snd.toolCalls[snd.toolIdx], threw)
     IN Commit(s, AfterTool(s, World(s), result, ap1, ap2))

\* controller.abort()
Abort(snd) == IF Aborted(snd) THEN snd ELSE [snd EXCEPT !.signal = snd.pc]

\* a stopGeneration that aborts and clears the whole registry
stopGenerationClearsAll(c) ==
  IF activeControllers[c] # None
  THEN /\ sends' = [s \in Sends |->
                      IF \E d \in Convs : activeControllers[d] = s
                      THEN Abort(sends[s]) ELSE sends[s]]
       /\ activeControllers' = [d \in Convs |-> None]
       /\ UNCHANGED <<store, stoppedAll, call>>
  ELSE UNCHANGED vars

\* stopGeneration(conversationId)
stopGeneration(c) ==
  LET controller == activeControllers[c] IN
  IF controller # None
  THEN /\ sends' = [sends EXCEPT ![controller] = Abort(@)]
       /\ activeControllers' = [activeControllers EXCEPT ![c] = None]
       /\ UNCHANGED <<store, stoppedAll, call>>
  ELSE UNCHANGED vars

\* a stopAllGenerations that aborts the handles and keeps the mappings
stopAllGenerationsKeepsRegistry ==
  LET registered == {activeControllers[c] : c \in Convs} \ {None} IN
  /\ stoppedAll' = TRUE
  /\ sends' = [s \in Sends |-> IF s \in registered THEN Abort(sends[s])
                                                  ELSE sends[s]]
  /\ UNCHANGED <<store, activeControllers, call>>

\* stopAllGenerations()
stopAllGenerations ==
  LET registered == {activeControllers[c] : c \in Convs} \ {None} IN
  /\ stoppedAll' = TRUE
  /\ UNCHANGED <<store, call>>
  /\ IF registered = {}
     THEN UNCHANGED <<sends, activeControllers>>
     ELSE /\ sends' = [s \in Sends |-> IF s \in registered THEN Abort(sends[s])
                                                        ELSE sends[s]]
          /\ activeControllers' = [c \in Convs |-> None]

Next ==
  \/ \E s \in {1}, c \in Convs, channel, key, rd, ap \in BOOLEAN :
        SendMessage(s, c, channel, key, rd, ap)
  \/ \E s \in Sends, ok \in BOOLEAN : Register(s, ok)
  \/ \E s \in Sends, ok, ap1, ap2 \in BOOLEAN : ProxyResolved(s, ok, ap1, ap2)
  \/ \E s \in Sends, delta \in Chars :
        /\ Len(sends[s].chunks) < MaxContentDriven
        /\ StreamChunk(s, delta)
  \/ \E s \in Sends, name \in ToolNames : StreamToolCallStart(s, name)
  \/ \E s \in Sends, stopReason \in StopReasons, ap1, ap2 \in BOOLEAN :
        StreamReturn(s, stopReason, ap1, ap2)
  \/ \E s \in Sends, ap \in BOOLEAN : StreamThrow(s, ap)
  \/ \E s \in Sends, threw, ap1, ap2 \in BOOLEAN : ToolReturn(s, threw, ap1, ap2)
  \/ \E c \in Convs : stopGeneration(c)
  \/ stopAllGenerations

\* One invocation, driven by every provider, store and backend behaviour; its
\* streams deliver at most MaxContentDriven chunk deltas.
Spec == Init /\ [][Next]_vars

\* Concurrent invocations on the registry; the provider answers without tool calls.
NextReg ==
  \/ \E s \in Sends, c \in Convs, channel, key, rd, ap \in BOOLEAN :
        SendMessage(s, c, channel, key, rd, ap)
  \/ \E s \in Sends, ok \in BOOLEAN : Register(s, ok)
  \/ \E s \in Sends, ok, ap1, ap2 \in BOOLEAN : ProxyResolved(s, ok, ap1, ap2)
  \/ \E s \in Sends : StreamChunk(s, "a")
  \/ \E s \in Sends, ap1, ap2 \in BOOLEAN : StreamReturn(s, "end_turn", ap1, ap2)
  \/ \E s \in Sends, ap \in BOOLEAN : StreamThrow(s, ap)
  \/ \E c \in Convs : stopGeneration(c)
  \/ stopAllGenerations

SpecReg == Init /\ [][NextReg]_vars

\* One invocation whose streams carry reasoning deltas as well; the store
\* accepts every append and the memory backend answers every call.
NextAcc ==
  \/ \E c \in Convs : SendMessage(1, c, TRUE, TRUE, TRUE, TRUE)
  \/ \E s \in Sends : Register(s, TRUE)
  \/ \E s \in Sends : ProxyResolved(s, TRUE, TRUE, TRUE)
  \/ \E s \in Sends, delta \in Chars : StreamChunk(s, delta)
  \/ \E s \in Sends, delta \in Chars : StreamReasoning(s, delta)
  \/ \E s \in Sends : StreamToolCallStart(s, "recall_memory")
  \/ \E s \in Sends, stopReason \in StopReasons :
        StreamReturn(s, stopReason, TRUE, TRUE)
  \/ \E s \in Sends : StreamThrow(s, TRUE)
  \/ \E s \in Sends : ToolReturn(s, FALSE, TRUE, TRUE)
  \/ \E c \in Convs : stopGeneration(c)

SpecAcc == Init /\ [][NextAcc]_vars

\* Concurrent invocations whose streams deliver text and whitespace deltas and
\* no tool calls; every append of the store may fail.
NextSave ==
  \/ \E s \in Sends, c \in Convs, channel, key, rd, ap \in BOOLEAN :
        SendMessage(s, c, channel, key, rd, ap)
  \/ \E s \in Sends, ok \in BOOLEAN : Register(s, ok)
  \/ \E s \in Sends, ok, ap1, ap2 \in BOOLEAN : ProxyResolved(s, ok, ap1, ap2)
  \/ \E s \in Sends, delta \in Chars : StreamChunk(s, delta)
  \/ \E s \in Sends, ap1, ap2 \in BOOLEAN : StreamReturn(s, "end_turn", ap1, ap2)
  \/ \E s \in Sends, ap \in BOOLEAN : StreamThrow(s, ap)
  \/ \E c \in Convs : stopGeneration(c)

SpecSave == Init /\ [][NextSave]_vars


(* ---------------------------------------------------------------------- *)
(* filterHistory (chat-service.ts:186-227)                                 *)
(* A call is a record: fn, the arguments, status "pending" or "done", and  *)
(* the result once the function has returned.                              *)
(* ---------------------------------------------------------------------- *)

\* the sequences over S of length at most n
SeqsUpTo(S, n) == UNION {[1..k -> S] : k \in 0..n}

\* a ChatMessage as filterHistory sees it; the id of a stored message is unique
ChatMessage(id, role, content) == [id |-> id, role |-> role, content |-> content]

\* contextLength?: number | 'infinite'
ContextLengthNumber(n) == [kind |-> "number", n |-> n]
ContextLengthInfinite == [kind |-> "infinite", n |-> 0]
ContextLengthUndefined == [kind |-> "undefined", n |-> 0]

\* messageHistory.filter((msg) => !(msg.role === 'assistant' && !msg.content.trim()))
NotBlankAssistant(msg) == ~(msg.role = "assistant" /\ Trim(msg.content) = <<>>)

\* filtered.findIndex((msg) => msg.id === id), 0-based, -1 when there is none
findIndex(filtered, id) ==
  LET hits == {i \in 1..Len(filtered) : filtered[i].id = id}
  IN IF hits = {} THEN -1 ELSE SetMin(hits) - 1

\* filtered.slice(start), start 0-based and not negative
slice(filtered, start) == SubSeq(filtered, start + 1, Len(filtered))

\* a divider step that keeps the divider message itself
DividerFilterKeepsDivider(filtered, contextDividers) ==
  IF Len(contextDividers) > 0
  THEN LET lastDividerId == contextDividers[Len(contextDividers)]
           dividerIndex == findIndex(filtered, lastDividerId)
       IN IF dividerIndex >= 0 THEN slice(filtered, dividerIndex) ELSE filtered
  ELSE filtered

\* lines 197-203: the divider step
DividerFilter(filtered, contextDividers) ==
  IF Len(contextDividers) > 0
  THEN LET lastDividerId == contextDividers[Len(contextDividers)]
           dividerIndex == findIndex(filtered, lastDividerId)
       IN IF dividerIndex >= 0 THEN slice(filtered, dividerIndex + 1) ELSE filtered
  ELSE filtered

\* a break condition that lets one round too many in
RoundsReachedOffByOne(roundCount, contextLength) == roundCount > contextLength

\* if (roundCount >= contextLength) break
RoundsReached(roundCount, contextLength) == roundCount >= contextLength

\* for (let i = filtered.length - 1; i >= 0; i--) { ... }, i 0-based
RECURSIVE CollectRounds(_, _, _, _, _)
CollectRounds(filtered, i, collected, roundCount, contextLength) ==
  IF i < 0
  THEN collected
  ELSE LET msg == filtered[i + 1]
           unshifted == <<msg>> \o collected
       IN IF msg.role = "user"
          THEN IF RoundsReached(roundCount + 1, contextLength)
               THEN unshifted
               ELSE CollectRounds(filtered, i - 1, unshifted, roundCount + 1,
                                  contextLength)
          ELSE CollectRounds(filtered, i - 1, unshifted, roundCount, contextLength)

\* filterHistory(messageHistory, contextDividers, contextLength)
filterHistory(messageHistory, contextDividers, contextLength) ==
  LET filtered == DividerFilter(SelectSeq(messageHistory, NotBlankAssistant),
                                contextDividers)
  IN IF contextLength.kind = "number" /\ contextLength.n >= 0
     THEN IF contextLength.n = 0
          THEN <<>>
          ELSE CollectRounds(filtered, Len(filtered) - 1, <<>>, 0, contextLength.n)
     ELSE filtered

\* the histories, divider lists and policies filterHistory is called with:
\* message i of a history has id i; a divider list may name an id that no
\* message has (its message was deleted); an absent list is the empty one
MessageKinds == {"user", "assistant"} \X {<<"a">>, <<" ">>}
Histories ==
  {[i \in 1..Len(ks) |-> ChatMessage(i, ks[i][1], ks[i][2])] :
     ks \in SeqsUpTo(MessageKinds, MaxHistory)}
DividerLists == SeqsUpTo(1..(MaxHistory + 1), MaxDividers)
ContextLengths ==
  {ContextLengthNumber(n) : n \in (0 - 1)..MaxHistory}
    \cup {ContextLengthInfinite, ContextLengthUndefined}

FilterHistoryCalls ==
  [fn : {"filterHistory"}, status : {"pending"}, messageHistory : Histories,
   contextDividers : DividerLists, contextLength : ContextLengths,
   result : {<<>>}]

\* the call returns
FilterHistoryReturn ==
  /\ call.fn = "filterHistory"
  /\ call.status = "pending"
  /\ call' = [call EXCEPT
                !.status = "done",
                !.result = filterHistory(call.messageHistory, call.contextDividers,
                                         call.contextLength)]
  /\ UNCHANGED <<sends, store, activeControllers, stoppedAll>>

InitFilter ==
  /\ sends = [s \in Sends |-> InitSend]
  /\ store = [c \in Convs |-> <<>>]
  /\ activeControllers = [c \in Convs |-> None]
  /\ stoppedAll = FALSE
  /\ call \in FilterHistoryCalls

NextFilter == FilterHistoryReturn

\* filterHistory, called once with each history, divider list and policy
SpecFilter == InitFilter /\ [][NextFilter]_vars


(* ---------------------------------------------------------------------- *)
(* parseSSELine of the provider adapters                                   *)
(* (anthropic-adapter.ts:252-292, google-adapter.ts:238-283)               *)
(* A JavaScript value is a tuple that starts with its tag; an object holds  *)
(* its properties as <<name, value>> pairs. A frame is a string: the JSON   *)
(* text of a value, such a text cut short, or text that is no JSON at all.  *)
(* ---------------------------------------------------------------------- *)

Undefined == <<"undefined">>
Null == <<"null">>
Num(n) == <<"number", n>>
Bool(b) == <<"boolean", b>>
Str(s) == <<"string", s>>
Arr(elements) == <<"array", elements>>
Obj(properties) == <<"object", properties>>

\* JSON.stringify(value): the JSON text of a value
JSONstringify(value) == <<"json", value>>

\* the JSON text of an object, cut off before its closing brace
TruncatedJSON(value) == <<"truncated", value>>

\* JSON.parse(text): the value of a JSON text; a SyntaxError on any other string
JSONparse(text) ==
  IF text[1] = "json"
  THEN [threw |-> FALSE, value |-> text[2]]
  ELSE [threw |-> TRUE, value |-> Undefined]

Nullish(value) == value[1] \in {"undefined", "null"}

\* ToBoolean(value)
Truthy(value) ==
  CASE value[1] \in {"undefined", "null"} -> FALSE
    [] value[1] = "number" -> value[2] # 0
    [] value[1] = "boolean" -> value[2]
    [] value[1] = "string" -> value[2] # ""
    [] OTHER -> TRUE

\* value.name, for a value that is neither null nor undefined
Get(value, name) ==
  IF value[1] = "object" /\ \E i \in 1..Len(value[2]) : value[2][i][1] = name
  THEN value[2][CHOOSE i \in 1..Len(value[2]) : value[2][i][1] = name][2]
  ELSE Undefined

\* value?.name
OptGet(value, name) == IF Nullish(value) THEN Undefined ELSE Get(value, name)

\* value?.[0]
OptFirst(value) ==
  CASE Nullish(value) -> Undefined
    [] value[1] = "array" -> IF Len(value[2]) = 0 THEN Undefined ELSE value[2][1]
    [] value[1] = "object" -> Get(value, "0")
    [] value[1] = "string" /\ value[2] # "" -> Str("c")
    [] value[1] \in {"json", "truncated"} -> Str("c")
    [] OTHER -> Undefined

\* value === 'text'
Is(value, text) == value[1] = "string" /\ value[2] = text

\* value || ''
OrEmpty(value) == IF Truthy(value) THEN value ELSE Str("")

\* a StreamEvent; the fields its type does not have are undefined
StreamEvent(type, toolCallId, toolName, data, metadata) ==
  [type |-> type, toolCallId |-> toolCallId, toolName |-> toolName,
   data |-> data, metadata |-> metadata]
ChunkEvent(delta) == StreamEvent("chunk", Undefined, Undefined, delta, Undefined)
ReasoningEvent(delta) == StreamEvent("reasoning", Undefined, Undefined, delta, Undefined)
ToolCallStartEvent(toolCallId, toolName, metadata) ==
  StreamEvent("tool_call_start", toolCallId, toolName, Undefined, metadata)
ToolCallDeltaEvent(toolCallId, argumentsDelta) ==
  StreamEvent("tool_call_delta", toolCallId, Undefined, argumentsDelta, Undefined)
DoneEvent(stopReason) == StreamEvent("done", Undefined, Undefined, stopReason, Undefined)

\* the outcome of a block of code: it threw, or it returned an event list
Throws == [threw |-> TRUE, events |-> <<>>]
Returns(events) == [threw |-> FALSE, events |-> events]

\* a catch clause that rethrows
CatchRethrows(body) == body

\* try { body } catch { return [] }
CatchReturnsEmpty(body) == IF body.threw THEN Returns(<<>>) ELSE body

\* the try block of AnthropicAdapter.parseSSELine
AnthropicParseBody(jsonLine) ==
  LET parsed == JSONparse(jsonLine) IN
  IF parsed.threw THEN Throws
  ELSE LET event == parsed.value IN
  IF Nullish(event) THEN Throws
  ELSE
    LET type == Get(event, "type")
        block == Get(event, "content_block")
        delta == Get(event, "delta")
        start ==
          IF Is(type, "content_block_start") /\ Is(OptGet(block, "type"), "tool_use")
          THEN <<ToolCallStartEvent(OrEmpty(Get(block, "id")),
                                    OrEmpty(Get(block, "name")), Undefined)>>
          ELSE <<>>
        content ==
          IF Is(type, "content_block_delta")
          THEN IF /\ Is(OptGet(delta, "type"), "thinking_delta")
                  /\ Truthy(OptGet(delta, "thinking"))
               THEN <<ReasoningEvent(Get(delta, "thinking"))>>
               ELSE IF /\ Is(OptGet(delta, "type"), "input_json_delta")
                       /\ Truthy(OptGet(delta, "partial_json"))
               THEN <<ToolCallDeltaEvent(Str(""), Get(delta, "partial_json"))>>
               ELSE IF Truthy(OptGet(delta, "text"))
               THEN <<ChunkEvent(Get(delta, "text"))>>
               ELSE <<>>
          ELSE <<>>
        done ==
          IF Is(type, "message_delta") /\ Truthy(OptGet(delta, "stop_reason"))
          THEN <<DoneEvent(Get(delta, "stop_reason"))>>
          ELSE <<>>
    IN Returns(start \o content \o done)

\* AnthropicAdapter.parseSSELine
AnthropicParseSSELine(jsonLine) == CatchReturnsEmpty(AnthropicParseBody(jsonLine))

\* for (const part of parts) { ... }, from position i, with the events pushed so far
RECURSIVE GoogleParts(_, _, _)
GoogleParts(parts, i, events) ==
  IF i > Len(parts) THEN Returns(events)
  ELSE LET part == parts[i] IN
  IF Nullish(part) THEN Throws
  ELSE LET fc == Get(part, "functionCall") IN
  IF Truthy(fc)
  THEN GoogleParts(parts, i + 1,
         events \o
         <<ToolCallStartEvent(
              Get(fc, "name"), Get(fc, "name"),
              IF Truthy(Get(part, "thoughtSignature"))
              THEN Obj(<< <<"thoughtSignature", Get(part, "thoughtSignature")>> >>)
              ELSE Undefined),
           ToolCallDeltaEvent(
              Get(fc, "name"),
              JSONstringify(IF Truthy(Get(fc, "args")) THEN Get(fc, "args")
                                                       ELSE Obj(<<>>)))>>)
  ELSE IF ~Truthy(Get(part, "text")) THEN GoogleParts(parts, i + 1, events)
  ELSE IF Truthy(Get(part, "thought"))
  THEN GoogleParts(parts, i + 1,
                   Append(events, ReasoningEvent(Get(part, "text"))))
  ELSE GoogleParts(parts, i + 1,
                   Append(events, ChunkEvent(Get(part, "text"))))

\* what for...of iterates over: the elements of an array, the characters of a string
Iterable(value) == value[1] \in {"array", "string", "json", "truncated"}
Elements(value) == IF value[1] = "array" THEN value[2] ELSE <<Str("c")>>

\* the try block of GoogleAdapter.parseSSELine
GoogleParseBody(jsonLine) ==
  LET parsed == JSONparse(jsonLine) IN
  IF parsed.threw THEN Throws
  ELSE IF Nullish(parsed.value) THEN Throws
  ELSE
    LET parts == OptGet(OptGet(OptFirst(Get(parsed.value, "candidates")),
                               "content"), "parts")
    IN IF ~Truthy(parts) THEN Returns(<<>>)
       ELSE IF ~Iterable(parts) THEN Throws
       ELSE GoogleParts(Elements(parts), 1, <<>>)

\* GoogleAdapter.parseSSELine
GoogleParseSSELine(jsonLine) == CatchReturnsEmpty(GoogleParseBody(jsonLine))

parseSSELine(adapter, jsonLine) ==
  IF adapter = "anthropic" THEN AnthropicParseSSELine(jsonLine)
                           ELSE GoogleParseSSELine(jsonLine)

Adapters == {"anthropic", "google"}

\* values that are no JSON object, and strings that are no JSON text
NonObjects == {Null, Num(5), Str("s"), Arr(<<>>)}
NotJSON == {Str(""), Str("[DONE]")}

\* Anthropic SSE events
AnthropicBlocks ==
  {Undefined, Null,
   Obj(<< <<"type", Str("text")>> >>),
   Obj(<< <<"type", Str("tool_use")>> >>),
   Obj(<< <<"type", Str("tool_use")>>, <<"id", Str("call1")>>,
          <<"name", Str("recall_memory")>> >>),
   Obj(<< <<"type", Str("tool_use")>>, <<"id", Str("call2")>>,
          <<"name", Str("recall_memory")>> >>)}
AnthropicDeltas ==
  {Undefined, Null,
   Obj(<< <<"type", Str("text_delta")>>, <<"text", Str("x")>> >>),
   Obj(<< <<"type", Str("text_delta")>>, <<"text", Str("")>> >>),
   Obj(<< <<"type", Str("thinking_delta")>>, <<"thinking", Str("t")>> >>),
   Obj(<< <<"type", Str("thinking_delta")>>, <<"text", Str("x")>> >>),
   Obj(<< <<"type", Str("input_json_delta")>>, <<"partial_json", Str("{")>> >>),
   Obj(<< <<"type", Str("input_json_delta")>>, <<"partial_json", Str("")>> >>),
   Obj(<< <<"stop_reason", Str("tool_use")>> >>)}
AnthropicEvents ==
  {Obj(<<>>), Obj(<< <<"type", Str("ping")>> >>)}
    \cup {Obj(<< <<"type", Str("content_block_start")>>, <<"content_block", b>> >>) :
            b \in AnthropicBlocks}
    \cup {Obj(<< <<"type", Str(ty)>>, <<"delta", d>> >>) :
            ty \in {"content_block_delta", "message_delta"}, d \in AnthropicDeltas}

\* Google stream data
GooglePartLists ==
  {Null, Num(5), Str("ab"), Arr(<<>>), Arr(<<Null>>),
   Arr(<<Obj(<< <<"text", Str("x")>> >>)>>),
   Arr(<<Obj(<< <<"text", Str("")>> >>)>>),
   Arr(<<Obj(<< <<"text", Str("t")>>, <<"thought", Bool(TRUE)>> >>)>>),
   Arr(<<Obj(<< <<"functionCall",
                  Obj(<< <<"name", Str("recall_memory")>>,
                         <<"args", Obj(<< <<"query", Str("q")>> >>)>> >>)>> >>)>>),
   Arr(<<Obj(<< <<"functionCall", Obj(<< <<"name", Str("add_memory")>> >>)>>,
                <<"thoughtSignature", Str("sig")>> >>)>>),
   Arr(<<Obj(<< <<"text", Str("t")>>, <<"thought", Bool(TRUE)>> >>),
         Obj(<< <<"text", Str("x")>> >>)>>),
   Arr(<<Obj(<< <<"text", Str("x")>> >>), Null>>),
   Arr(<<Obj(<< <<"functionCall",
                  Obj(<< <<"name", Str("recall_memory")>>,
                         <<"args", Obj(<< <<"query", Str("q")>> >>)>> >>)>> >>),
         Obj(<< <<"functionCall",
                  Obj(<< <<"name", Str("recall_memory")>>,
                         <<"args", Obj(<< <<"query", Str("r")>> >>)>> >>)>> >>)>>)}
GoogleCandidateLists ==
  {Undefined, Null, Str("s"), Arr(<<>>), Arr(<<Null>>), Arr(<<Obj(<<>>)>>),
   Arr(<<Obj(<< <<"content", Null>> >>)>>), Arr(<<Obj(<< <<"content", Obj(<<>>)>> >>)>>)}
    \cup {Arr(<<Obj(<< <<"content", Obj(<< <<"parts", p>> >>)>> >>)>>) : p \in GooglePartLists}
    \cup {Arr(<<Obj(<< <<"finishReason", Str("STOP")>> >>)>>),
          Arr(<<Obj(<< <<"content",
                         Obj(<< <<"parts", Arr(<<Obj(<< <<"text", Str("x")>> >>)>>)>> >>)>>,
                       <<"finishReason", Str("STOP")>> >>)>>),
          Obj(<< <<"0", Obj(<< <<"content",
                 Obj(<< <<"parts", Arr(<<Obj(<< <<"text", Str("x")>> >>)>>)>> >>)>> >>)>> >>)}
GoogleEvents == {Obj(<< <<"candidates", c>> >>) : c \in GoogleCandidateLists}

\* the frames an adapter may be handed
Frames(adapter) ==
  LET objects == IF adapter = "anthropic" THEN AnthropicEvents ELSE GoogleEvents
  IN NotJSON
       \cup {JSONstringify(value) : value \in NonObjects \cup objects}
       \cup {TruncatedJSON(value) : value \in {CHOOSE o \in objects : Truthy(o)}}

\* a frame that is no JSON text, or the JSON text of a value that is no object
Malformed(frame) == frame[1] # "json" \/ frame[2][1] # "object"

ParseSSELineCalls ==
  UNION {[fn : {"parseSSELine"}, adapter : {a}, frames : {fs}, pos : {0},
          status : {"reading"}, last : {<<>>}, events : {<<>>}] :
           <<a, fs>> \in UNION {{a2} \X SeqsUpTo(Frames(a2), MaxFrames) : a2 \in Adapters}}

\* the stream reader hands the next frame to parseSSELine and folds the returned
\* events into its aggregate; an exception of parseSSELine ends the stream
ReadFrame ==
  /\ call.fn = "parseSSELine"
  /\ call.status = "reading"
  /\ call.pos < Len(call.frames)
  /\ LET r == parseSSELine(call.adapter, call.frames[call.pos + 1]) IN
     call' = IF r.threw
             THEN [call EXCEPT !.status = "threw"]
             ELSE [call EXCEPT !.pos = @ + 1, !.last = r.events,
                               !.events = @ \o r.events]
  /\ UNCHANGED <<sends, store, activeControllers, stoppedAll>>

\* the stream has no more frames
ReadEnd ==
  /\ call.fn = "parseSSELine"
  /\ call.status = "reading"
  /\ call.pos = Len(call.frames)
  /\ call' = [call EXCEPT !.status = "done"]
  /\ UNCHANGED <<sends, store, activeControllers, stoppedAll>>

InitSSE ==
  /\ sends = [s \in Sends |-> InitSend]
  /\ store = [c \in Convs |-> <<>>]
  /\ activeControllers = [c \in Convs |-> None]
  /\ stoppedAll = FALSE
  /\ call \in ParseSSELineCalls

NextSSE == ReadFrame \/ ReadEnd

\* a stream of frames, each parsed by the adapter's parseSSELine
SpecSSE == InitSSE /\ [][NextSSE]_vars


(* ---------------------------------------------------------------------- *)
(* buildTitleRequest of the provider adapters                              *)
(* (anthropic-adapter.ts:294-313, google-adapter.ts:285-298)               *)
(* ---------------------------------------------------------------------- *)

\* normalizeAnthropicBaseUrl / normalizeBaseUrl of url-utils.ts, left uninterpreted
normalizeAnthropicBaseUrl(baseUrl) == <<"normalizeAnthropicBaseUrl", baseUrl>>
normalizeBaseUrl(baseUrl) == <<"normalizeBaseUrl", baseUrl>>

\* AnthropicAdapter.buildTitleRequest
AnthropicBuildTitleRequest(input) ==
  [url |-> <<normalizeAnthropicBaseUrl(input.baseUrl), "/messages">>,
   headers |-> Obj(<< <<"x-api-key", Str(input.apiKey)>>,
                      <<"Authorization", Str("Bearer " \o input.apiKey)>>,
                      <<"anthropic-version", Str("2023-06-01")>>,
                      <<"content-type", Str("application/json")>> >>),
   body |-> JSONstringify(
     Obj(<< <<"model", Str(input.modelId)>>,
            <<"max_tokens", Num(50)>>,
            <<"messages", Arr(<<Obj(<< <<"role", Str("user")>>,
                                       <<"content", Str(input.prompt)>> >>)>>)>>,
            <<"thinking", Obj(<< <<"type", Str("disabled")>> >>)>> >>))]

\* GoogleAdapter.buildTitleRequest
GoogleBuildTitleRequest(input) ==
  [url |-> <<normalizeBaseUrl(input.baseUrl), "/v1beta/models/", input.modelId,
             ":generateContent?key=", input.apiKey>>,
   headers |-> Obj(<< <<"content-type", Str("application/json")>> >>),
   body |-> JSONstringify(
     Obj(<< <<"contents",
              Arr(<<Obj(<< <<"role", Str("user")>>,
                           <<"parts", Arr(<<Obj(<< <<"text", Str(input.prompt)>> >>)>>)>>
                        >>)>>)>>,
            <<"generationConfig", Obj(<< <<"maxOutputTokens", Num(50)>> >>)>> >>))]

buildTitleRequest(adapter, input) ==
  IF adapter = "anthropic" THEN AnthropicBuildTitleRequest(input)
                           ELSE GoogleBuildTitleRequest(input)

\* TitleRequestInput
TitleRequestInputs ==
  [baseUrl : {"https://api.example.com", "https://proxy.example.com/v1/"},
   apiKey : {"key1", "key2"},
   modelId : {"model-a", "model-b"},
   prompt : {"", "Title for: hello", "Title for: bye"}]

\* a title request is built for a conversation whose chat has thinkingEnabled
\* set one way or the other; the setting is no part of TitleRequestInput
BuildTitleRequestCalls ==
  [fn : {"buildTitleRequest"}, status : {"pending"}, adapter : Adapters,
   thinkingEnabled : BOOLEAN, input : TitleRequestInputs,
   result : {[url |-> <<>>, headers |-> Undefined, body |-> Str("")]}]

\* the call returns
BuildTitleRequestReturn ==
  /\ call.fn = "buildTitleRequest"
  /\ call.status = "pending"
  /\ call' = [call EXCEPT !.status = "done",
                          !.result = buildTitleRequest(call.adapter, call.input)]
  /\ UNCHANGED <<sends, store, activeControllers, stoppedAll>>

InitTitle ==
  /\ sends = [s \in Sends |-> InitSend]
  /\ store = [c \in Convs |-> <<>>]
  /\ activeControllers = [c \in Convs |-> None]
  /\ stoppedAll = FALSE
  /\ call \in BuildTitleRequestCalls

NextTitle == BuildTitleRequestReturn

\* buildTitleRequest, called once with each adapter and input
SpecTitle == InitTitle /\ [][NextTitle]_vars


(* ---------------------------------------------------------------------- *)
(* The memory client (memos-client.ts) behind executeMemoryToolCall        *)
(* In this part `call` is the running executeMemoryToolCall: the memory    *)
(* configuration it was handed, the tool call, and where callApi stands.   *)
(* ---------------------------------------------------------------------- *)

\* memos-client.ts:10
RETRIES == 1

\* how the fetch of one attempt of callApi settles:
\*   "2xx"      it resolves with a response that is ok
\*   "non2xx"   it resolves with a response that is not ok
\*   "throws"   it rejects (network failure)
\*   "timeout"  the timer fires after TIMEOUT_MS and aborts it
FetchOutcomes == {"2xx", "non2xx", "throws", "timeout"}

\* how res.json() of a 2xx response settles:
\*   "ok"       the body parses
\*   "malformed" the body parses, with a memory_detail_list or
\*              preference_detail_list that is no array of objects
\*   "badjson"  res.json() rejects
JsonOutcomes == {"ok", "malformed", "badjson"}

\* how res.text() of a non-2xx response settles:
\*   "status"   the text is read and the HTTP error is thrown
\*   "badtext"  res.text() rejects
TextOutcomes == {"status", "badtext"}

\* getMemoryConfig(): the apiKey is set or empty
MemoryConfigs == [apiKey : {"", "key"}]

NoError == [attempt |-> -1, kind |-> "none"]
NoResult == [toolCallId |-> 0, content |-> "", isError |-> FALSE]
NoToolCall == [id |-> 0, name |-> ""]

\* no executeMemoryToolCall has been made yet
IdleCall(memoryConfig) ==
  [fn |-> "executeMemoryToolCall", memoryConfig |-> memoryConfig,
   toolCall |-> NoToolCall,
   status |-> "idle",    \* the await callApi is suspended at: "fetch", "json"
                         \* (res.json()), "text" (res.text()), "backoff"
   path |-> "",
   attempt |-> 0,        \* the loop variable of callApi
   fetches |-> 0,        \* history: HTTP requests issued by this call
   waits |-> <<>>,       \* history: the backoff delays slept, in ms
   slept |-> FALSE,      \* history: a backoff followed the last fetch
   error |-> NoError,    \* lastError, then the error executeMemoryToolCall caught
   returned |-> FALSE,   \* history: callApi returned a body
   result |-> NoResult,
   log |-> <<>>]         \* history: the executions started and ended so far

\* searchMemory posts to /search/memory, addMemory to /add/message
PathOf(name) == IF name = "recall_memory" THEN "/search/memory" ELSE "/add/message"

\* callApi throws err: searchMemory / addMemory reject with it, and the catch
\* block of executeMemoryToolCall turns it into a ToolResult
callApiThrows(m, err) ==
  [m EXCEPT !.status = "done", !.error = err,
            !.result = executeMemoryToolCall(m.toolCall, TRUE),
            !.log = Append(@, [type |-> "end", id |-> m.toolCall.id])]

\* searchMemory maps the lists of the body with memories.map / prefs.map and
\* reads item.id: a TypeError on a malformed body; addMemory ignores the body
MappingThrows(name, outcome) == name = "recall_memory" /\ outcome = "malformed"

\* callApi returns the parsed body: the tool's result is built from it, or the
\* catch block of executeMemoryToolCall takes the error of the mapping
callApiReturns(m, outcome) ==
  LET threw == MappingThrows(m.toolCall.name, outcome) IN
  [m EXCEPT !.status = "done", !.returned = TRUE,
            !.error = IF threw THEN [attempt |-> m.attempt, kind |-> "other"]
                               ELSE @,
            !.result = executeMemoryToolCall(m.toolCall, threw),
            !.log = Append(@, [type |-> "end", id |-> m.toolCall.id])]

\* a key check that lets an empty key through
KeyMissingNever(credentials) == FALSE

\* if (!credentials.apiKey)
KeyMissing(credentials) == credentials.apiKey = ""

\* a backoff that is also slept after the last attempt
RetryFollowsAlways(attempt) == TRUE

\* if (attempt < RETRIES) await new Promise(...)
RetryFollows(attempt) == attempt < RETRIES

\* one iteration of the loop of callApi begins: fetch is called
callApiAttempt(m, attempt) ==
  IF attempt <= RETRIES
  THEN [m EXCEPT !.attempt = attempt, !.fetches = @ + 1, !.slept = FALSE,
                 !.status = "fetch"]
  ELSE callApiThrows(m, m.error)

\* callApi is entered, up to its first await
callApi(m, path) ==
  IF KeyMissing(m.memoryConfig)
  THEN callApiThrows(m, [attempt |-> -1, kind |-> "not set"])
  ELSE callApiAttempt([m EXCEPT !.path = path], 0)

\* the catch block of one attempt
callApiCatch(m, kind) ==
  LET n == [m EXCEPT !.error = [attempt |-> m.attempt, kind |-> kind]] IN
  IF RetryFollows(m.attempt)
  THEN [n EXCEPT !.status = "backoff", !.slept = TRUE,
                 !.waits = Append(@, 100 * (m.attempt + 1))]
  ELSE callApiAttempt(n, m.attempt + 1)

\* line 427 is reached for the tool call tc: credentials are built and
\* searchMemory / addMemory enter callApi, which runs up to its first await
EnterMemoryToolCall(m, tc) ==
  callApi([IdleCall(m.memoryConfig) EXCEPT
             !.toolCall = tc,
             !.log = Append(m.log, [type |-> "start", id |-> tc.id])],
          PathOf(tc.name))

\* sendMessage and the memory client run on from the world W and the call m
\* until the code is at rest: a tool call that is reached is entered at once
\* (line 427), and a call that has ended hands its result to the loop, which
\* goes on to the next tool call or to the next round
RECURSIVE RunToRest(_, _, _)
RunToRest(s, W, m) ==
  IF W.snd.pc # "tool"
  THEN [W |-> W, call |-> m]
  ELSE LET tc == W.snd.toolCalls[W.snd.toolIdx] IN
       IF m.toolCall.id # tc.id
       THEN RunToRest(s, W, EnterMemoryToolCall(m, tc))
       ELSE IF m.status = "done"
       THEN RunToRest(s, AfterTool(s, W, m.result, TRUE, TRUE), m)
       ELSE [W |-> W, call |-> m]

\* the variables take the values of a world and a call at rest
CommitAtRest(s, R) ==
  /\ sends' = [sends EXCEPT ![s] = R.W.snd]
  /\ store' = [store EXCEPT ![R.W.snd.conv] = R.W.log]
  /\ activeControllers' = R.W.reg
  /\ call' = R.call
  /\ UNCHANGED stoppedAll

\* the send whose loop awaits executeMemoryToolCall
Awaiting == CHOOSE s \in Sends : sends[s].pc = "tool"

\* streamSSE resolves with {content, reasoning, toolCalls, stopReason}; the
\* tool calls it names are executed by the memory client
StreamReturnToTools(s, stopReason) ==
  /\ sends[s].pc = "stream"
  /\ StreamDelivers(sends[s])
  /\ call.fn = "executeMemoryToolCall"
  /\ CommitAtRest(s, RunToRest(s, AfterStream(s, stopReason, TRUE, TRUE), call))

\* fetch resolved with a response: clearTimeout(timer), then res.json() of a
\* response that is ok, res.text() of another, is awaited
callApiResponse(m, ok) == [m EXCEPT !.status = IF ok THEN "json" ELSE "text"]

\* the pending fetch of callApi settles
FetchSettles(outcome) ==
  /\ call.fn = "executeMemoryToolCall"
  /\ call.status = "fetch"
  /\ outcome \in FetchOutcomes
  /\ CommitAtRest(Awaiting,
                  RunToRest(Awaiting, World(Awaiting),
                            IF outcome \in {"2xx", "non2xx"}
                            THEN callApiResponse(call, outcome = "2xx")
                            ELSE callApiCatch(call, outcome)))

\* the pending res.json() or res.text() of callApi settles
BodySettles(outcome) ==
  /\ call.fn = "executeMemoryToolCall"
  /\ \/ call.status = "json" /\ outcome \in JsonOutcomes
     \/ call.status = "text" /\ outcome \in TextOutcomes
  /\ CommitAtRest(Awaiting,
                  RunToRest(Awaiting, World(Awaiting),
                            IF outcome \in {"ok", "malformed"}
                            THEN callApiReturns(call, outcome)
                            ELSE callApiCatch(call, outcome)))

\* the backoff timer fires: the loop goes on to its next iteration
BackoffElapsed ==
  /\ call.fn = "executeMemoryToolCall"
  /\ call.status = "backoff"
  /\ CommitAtRest(Awaiting,
                  RunToRest(Awaiting, World(Awaiting),
                            callApiAttempt(call, call.attempt + 1)))

\* the messages of an exchange stored before the program was started
EarlierExchange ==
  <<Message(1, "user", <<>>, FALSE), AssistantMessage(2, <<"a">>, <<>>, FALSE)>>

InitMem ==
  /\ sends = [s \in Sends |-> InitSend]
  /\ store \in {[c \in Convs |-> <<>>],
                [c \in Convs |-> IF c = "c1" THEN EarlierExchange ELSE <<>>]}
  /\ activeControllers = [c \in Convs |-> None]
  /\ stoppedAll = FALSE
  /\ call \in {IdleCall(memoryConfig) : memoryConfig \in MemoryConfigs}

NextMem ==
  \/ SendMessage(1, "c1", TRUE, TRUE, TRUE, TRUE)
  \/ \E s \in Sends : Register(s, TRUE)
  \/ \E s \in Sends : ProxyResolved(s, TRUE, TRUE, TRUE)
  \/ \E s \in Sends : StreamChunk(s, "a")
  \/ \E s \in Sends, name \in {"recall_memory", "add_memory"} :
        sends[s].nCalls < MaxMemCalls /\ StreamToolCallStart(s, name)
  \/ \E s \in Sends, stopReason \in StopReasons :
        StreamReturnToTools(s, stopReason)
  \/ \E s \in Sends : StreamThrow(s, TRUE)
  \/ \E outcome \in FetchOutcomes : FetchSettles(outcome)
  \/ \E outcome \in JsonOutcomes \cup TextOutcomes : BodySettles(outcome)
  \/ BackoffElapsed
  \/ stopGeneration("c1")

\* One invocation whose memory tool calls run through the memory client.
SpecMem == InitMem /\ [][NextMem]_vars


(* ---------------------------------------------------------------------- *)
(* onEvent (chat-service.ts:391-415): the sink of the stream reader        *)
(* In this part `call` is the record of one send's streams: the events     *)
(* the reader handed to onEvent and the messages onEvent sent to the       *)
(* renderer, both in order.                                                *)
(* ---------------------------------------------------------------------- *)

\* a message on an IPC channel to the renderer
IpcMessage(channel, delta, toolCallId, toolName) ==
  [channel |-> channel, delta |-> delta, toolCallId |-> toolCallId,
   toolName |-> toolName]

\* a switch with a case for tool_call_delta as well
ChannelOfWithDelta(type) ==
  CASE type = "chunk" -> "STREAM_CHUNK"
    [] type = "reasoning" -> "STREAM_REASONING"
    [] type = "tool_call_start" -> "STREAM_TOOL_ACTIVITY"
    [] type = "tool_call_delta" -> "STREAM_TOOL_ACTIVITY"
    [] OTHER -> ""

\* switch (event.type): the channel of each case, "" where there is no case
ChannelOf(type) ==
  CASE type = "chunk" -> "STREAM_CHUNK"
    [] type = "reasoning" -> "STREAM_REASONING"
    [] type = "tool_call_start" -> "STREAM_TOOL_ACTIVITY"
    [] OTHER -> ""

\* onEvent: (event) => { switch (event.type) ... }
\* snd: the locals of sendMessage afterwards; sent: the messages sent meanwhile
onEvent(snd, event) ==
  LET channel == ChannelOf(event.type) IN
  CASE channel = "STREAM_CHUNK" ->
         [snd |-> SendEvent([snd EXCEPT
                    !.accumulatedContent = Append(@, event.data),
                    !.chunks = Append(@, [round |-> snd.round, delta |-> event.data])]),
          sent |-> <<IpcMessage(channel, event.data, None, "")>>]
    [] channel = "STREAM_REASONING" ->
         [snd |-> SendEvent([snd EXCEPT
                    !.accumulatedReasoning = Append(@, event.data),
                    !.reasonings = Append(@, [round |-> snd.round,
                                              delta |-> event.data])]),
          sent |-> <<IpcMessage(channel, event.data, None, "")>>]
    [] channel = "STREAM_TOOL_ACTIVITY" ->
         [snd |-> SendActivity(snd, "start", event.toolCallId, "", FALSE),
          sent |-> <<IpcMessage(channel, "", event.toolCallId, event.toolName)>>]
    [] OTHER -> [snd |-> snd, sent |-> <<>>]

\* the stream reader folds the event into its aggregate: a tool call opens
FoldEvent(snd, event) ==
  IF event.type = "tool_call_start"
  THEN [snd EXCEPT !.nCalls = @ + 1,
                   !.toolCalls = Append(@, [id |-> event.toolCallId,
                                            name |-> event.toolName])]
  ELSE snd

\* the events a stream may deliver next
NextEvents(snd) ==
  LET tc == ToolCall(snd.round, Len(snd.toolCalls) + 1, "") IN
       {StreamEvent("chunk", None, "", delta, "") : delta \in Chars}
  \cup {StreamEvent("reasoning", None, "", "a", "")}
  \cup {StreamEvent("tool_call_start", tc.id, name, "", "") : name \in ToolNames}
  \cup {StreamEvent("tool_call_delta", tc.id - 1, "", "{", "")}
  \cup {StreamEvent("done", None, "", stopReason, "") :
          stopReason \in {"tool_use", "end_turn"}}

NoEvents == [fn |-> "streamSSE", delivered |-> <<>>, forwarded |-> <<>>]

\* the stream reader parsed an event out of a frame and hands it to onEvent
OnEvent(s, event) ==
  /\ sends[s].pc = "stream"
  /\ StreamDelivers(sends[s])
  /\ call.fn = "streamSSE"
  /\ Len(call.delivered) < MaxEvents
  /\ LET handled == onEvent(FoldEvent(sends[s], event), event) IN
     /\ sends' = [sends EXCEPT ![s] = handled.snd]
     /\ call' = [call EXCEPT !.delivered = Append(@, event),
                             !.forwarded = @ \o handled.sent]
  /\ UNCHANGED <<store, activeControllers, stoppedAll>>

InitEvents ==
  /\ sends = [s \in Sends |-> InitSend]
  /\ store = [c \in Convs |-> <<>>]
  /\ activeControllers = [c \in Convs |-> None]
  /\ stoppedAll = FALSE
  /\ call = NoEvents

NextOnEvent ==
  \/ SendMessage(1, "c1", TRUE, TRUE, TRUE, TRUE)
  \/ \E s \in Sends : Register(s, TRUE)
  \/ \E s \in Sends : ProxyResolved(s, TRUE, TRUE, TRUE)
  \/ \E s \in Sends : \E event \in NextEvents(sends[s]) : OnEvent(s, event)
  \/ \E s \in Sends, stopReason \in StopReasons :
        StreamReturn(s, stopReason, TRUE, TRUE)
  \/ \E s \in Sends : StreamThrow(s, TRUE)
  \/ \E s \in Sends : ToolReturn(s, FALSE, TRUE, TRUE)
  \/ stopGeneration("c1")

\* One invocation whose streams deliver events of every type.
SpecEvents == InitEvents /\ [][NextOnEvent]_vars


(* ---------------------------------------------------------------------- *)
(* The catch block of sendMessage (chat-service.ts:482-526) and the kind   *)
(* of exception it handles. In this part `call` records the exception the  *)
(* catch block received and whether the signal had fired by then.          *)
(* ---------------------------------------------------------------------- *)

\* what streamSSE may reject with: the AbortError of an aborted read (raised
\* by the send's own signal, or by a proxy or the runtime without it), or the
\* TypeError of a failed transport
ErrorKinds == {"AbortError", "TypeError"}

NoException == [fn |-> "catch", error |-> "none", aborted |-> FALSE]

\* await streamSSE(...) rejects with an error of the given kind, and the catch
\* and finally blocks run
StreamRejects(s, error, ap) ==
  /\ sends[s].pc = "stream"
  /\ call.fn = "catch"
  /\ call' = [call EXCEPT !.error = error, !.aborted = Aborted(sends[s])]
  /\ LET W == Catch(s, World(s), ap) IN
     /\ sends' = [sends EXCEPT ![s] = W.snd]
     /\ store' = [store EXCEPT ![W.snd.conv] = W.log]
     /\ activeControllers' = W.reg
  /\ UNCHANGED stoppedAll

InitCatch ==
  /\ sends = [s \in Sends |-> InitSend]
  /\ store = [c \in Convs |-> <<>>]
  /\ activeControllers = [c \in Convs |-> None]
  /\ stoppedAll = FALSE
  /\ call = NoException

NextCatch ==
  \/ \E c \in Convs : SendMessage(1, c, TRUE, TRUE, TRUE, TRUE)
  \/ \E s \in Sends : Register(s, TRUE)
  \/ \E s \in Sends : ProxyResolved(s, TRUE, TRUE, TRUE)
  \/ \E s \in Sends, delta \in Chars : StreamChunk(s, delta)
  \/ \E s \in Sends, delta \in Chars : StreamReasoning(s, delta)
  \/ \E s \in Sends, error \in ErrorKinds, ap \in BOOLEAN : StreamRejects(s, error, ap)
  \/ \E c \in Convs : stopGeneration(c)

\* One invocation whose stream is rejected with either kind of error, before
\* or after the send was stopped.
SpecCatch == InitCatch /\ [][NextCatch]_vars


(* ---------------------------------------------------------------------- *)
(* updateConversationMeta after the assistant message was appended         *)
(* (chat-service.ts:467-472, 501-505). In this part `call` counts the      *)
(* calls of updateConversationMeta and those of them that threw.           *)
(* ---------------------------------------------------------------------- *)

NoMetaCalls == [fn |-> "updateConversationMeta", calls |-> 0, failed |-> 0]

\* updateConversationMeta(conversationId, {}) is called; meta: it succeeds
MetaCalled(m, meta) ==
  [m EXCEPT !.calls = @ + 1, !.failed = IF meta THEN @ ELSE @ + 1]

\* a call of updateConversationMeta whose exception is not caught
\*   done: the world if the code runs on;  thrown: the world if the exception
\*   leaves the enclosing block
TryMetaPropagates(done, thrown, meta) == IF meta THEN done ELSE thrown

\* try { updateConversationMeta(conversationId, {}) } catch { }
TryMeta(done, thrown, meta) == done

\* streamSSE resolves with no tool calls: step 10 with its index update
\*   ap1, ap2: the appends of the normal path and the catch block succeed
StreamReturnsAndSaves(s, ap1, ap2, meta) ==
  /\ sends[s].pc = "stream"
  /\ StreamDelivers(sends[s])
  /\ call.fn = "updateConversationMeta"
  /\ LET W0 == [World(s) EXCEPT !.snd.toolCalls = <<>>, !.snd.toolResults = <<>>]
         saved == Finalize(s, W0, ap1, ap2)
         appended == PersistOnFinish(sends[s].accumulatedContent) /\ ap1
         W == IF appended
              THEN TryMeta(saved, Catch(s, [W0 EXCEPT !.log = saved.log], ap2), meta)
              ELSE saved
     IN /\ sends' = [sends EXCEPT ![s] = W.snd]
        /\ store' = [store EXCEPT ![W.snd.conv] = W.log]
        /\ activeControllers' = W.reg
        /\ call' = IF appended THEN MetaCalled(call, meta) ELSE call
  /\ UNCHANGED stoppedAll

\* streamSSE rejects: the catch block with its index update
StreamRejectsAndSaves(s, ap, meta) ==
  /\ sends[s].pc = "stream"
  /\ call.fn = "updateConversationMeta"
  /\ LET saved == Catch(s, World(s), ap)
         appended == /\ Aborted(sends[s])
                     /\ PersistOnAbort(sends[s].accumulatedContent)
                     /\ ap
         W == IF appended
              THEN TryMeta(saved,
                           Finally([World(s) EXCEPT !.log = saved.log,
                                                    !.snd.pc = "threw"]),
                           meta)
              ELSE saved
     IN /\ sends' = [sends EXCEPT ![s] = W.snd]
        /\ store' = [store EXCEPT ![W.snd.conv] = W.log]
        /\ activeControllers' = W.reg
        /\ call' = IF appended THEN MetaCalled(call, meta) ELSE call
  /\ UNCHANGED stoppedAll

InitMeta ==
  /\ sends = [s \in Sends |-> InitSend]
  /\ store = [c \in Convs |-> <<>>]
  /\ activeControllers = [c \in Convs |-> None]
  /\ stoppedAll = FALSE
  /\ call = NoMetaCalls

NextMeta ==
  \/ \E c \in Convs : SendMessage(1, c, TRUE, TRUE, TRUE, TRUE)
  \/ \E s \in Sends : Register(s, TRUE)
  \/ \E s \in Sends : ProxyResolved(s, TRUE, TRUE, TRUE)
  \/ \E s \in Sends, delta \in Chars : StreamChunk(s, delta)
  \/ \E s \in Sends, delta \in Chars : StreamReasoning(s, delta)
  \/ \E s \in Sends, ap1, ap2, meta \in BOOLEAN :
        StreamReturnsAndSaves(s, ap1, ap2, meta)
  \/ \E s \in Sends, ap, meta \in BOOLEAN : StreamRejectsAndSaves(s, ap, meta)
  \/ \E c \in Convs : stopGeneration(c)

\* One invocation that saves its message while the conversation index can or
\* cannot be updated.
SpecMeta == InitMeta /\ [][NextMeta]_vars


(* ---------------------------------------------------------------------- *)
(* The messages of a stream request (anthropic-adapter.ts:121-195,         *)
(* google-adapter.ts:105-180). A wire message keeps, next to its role and  *)
(* text, the id of the stored message it was made from (None for a         *)
(* continuation message) and the ids of its tool blocks.                   *)
(* ---------------------------------------------------------------------- *)

WireMessage(role, content, blocks, from) ==
  [role |-> role, content |-> content, blocks |-> blocks, from |-> from]

NotSystem(msg) == msg.role # "system"

\* toAnthropicMessages: the history, then the current user message
toAnthropicMessages(history, userMsg) ==
  LET kept == SelectSeq(history, NotSystem) IN
  [i \in 1..Len(kept) |->
     WireMessage(IF kept[i].role = "assistant" THEN "assistant" ELSE "user",
                 kept[i].content, <<>>, kept[i].id)]
    \o <<WireMessage("user", userMsg.content, <<>>, userMsg.id)>>

\* toGoogleContents: the same, the assistant's role being 'model'
toGoogleContents(history, userMsg) ==
  LET kept == SelectSeq(history, NotSystem) IN
  [i \in 1..Len(kept) |->
     WireMessage(IF kept[i].role = "assistant" THEN "model" ELSE "user",
                 kept[i].content, <<>>, kept[i].id)]
    \o <<WireMessage("user", userMsg.content, <<>>, userMsg.id)>>

\* appendContinuationMessages: one wire message per continuation message, an
\* assistant turn under assistantRole, a tool turn under 'user'. The blocks of
\* an assistant turn are labelled tc.id (Anthropic tool_use) or tc.name (Google
\* functionCall), those of a tool turn with the toolCallId of the result
appendContinuationMessages(messages, continuationMessages, assistantRole) ==
  messages \o
  [i \in 1..Len(continuationMessages) |->
     LET contMsg == continuationMessages[i] IN
     IF contMsg.role = "assistant"
     THEN WireMessage(assistantRole, contMsg.content,
                      [j \in 1..Len(contMsg.toolCalls) |->
                         IF assistantRole = "model"
                         THEN contMsg.toolCalls[j].name
                         ELSE contMsg.toolCalls[j].id],
                      None)
     ELSE WireMessage("user", <<>>,
                      [j \in 1..Len(contMsg.results) |-> contMsg.results[j].toolCallId],
                      None)]

\* buildStreamRequest: the messages (Anthropic) or contents (Google) of the body
\* continuationMessages = <<>>: the input carries none
RequestMessages(adapter, history, userMsg, continuationMessages) ==
  IF adapter = "anthropic"
  THEN appendContinuationMessages(toAnthropicMessages(history, userMsg),
                                  continuationMessages, "assistant")
  ELSE appendContinuationMessages(toGoogleContents(history, userMsg),
                                  continuationMessages, "model")


(* ---------------------------------------------------------------------- *)
(* The auto updater (agent-prompt-builder.ts:250-464)                      *)
(* The module state after initAutoUpdater, with the promises and timers    *)
(* that are pending: call is                                               *)
(*   currentStatus  the status field of currentStatus                      *)
(*   reported       the status last pushed to the renderer                 *)
(*   win            the main window reference is set                       *)
(*   checkInterval  the 4-hour interval is set                             *)
(*   leaked         the intervals of earlier initAutoUpdater calls that    *)
(*                  were overwritten without being cleared: still firing   *)
(*   firstCheck     the 10-second timers of a first check that are pending *)
(*   windows        the open windows that carry a 'closed' handler         *)
(*   inits          history: the calls of initAutoUpdater made             *)
(*   isInstalling   the module flag                                        *)
(*   checks, downloads   autoUpdater.checkForUpdates() / downloadUpdate()  *)
(*                  promises awaited by checkForUpdates / downloadUpdate   *)
(*   running        the application process has not exited                 *)
(* ---------------------------------------------------------------------- *)

\* the statuses the five unconditional autoUpdater handlers set:
\* checking-for-update, update-available, update-not-available,
\* download-progress, update-downloaded
UpdaterEvents ==
  [checking_for_update |-> "checking", update_available |-> "available",
   update_not_available |-> "not-available", download_progress |-> "downloading",
   update_downloaded |-> "downloaded"]

\* setStatus(status)
setStatus(u, status) ==
  [u EXCEPT !.currentStatus = status,
            !.reported = IF u.win THEN status ELSE @]

\* cleanupUpdater()
cleanupUpdater(u) == [u EXCEPT !.checkInterval = FALSE]

\* autoUpdater.on('error', ...)
onError(u) == IF ~u.isInstalling THEN setStatus(u, "error") ELSE u

\* installUpdate(); throws: app.relaunch() or autoUpdater.quitAndInstall() throws
installUpdate(u, throws) ==
  IF u.isInstalling THEN u
  ELSE LET started == cleanupUpdater(setStatus([u EXCEPT !.isInstalling = TRUE],
                                               "installing"))
       IN IF throws
          THEN setStatus([started EXCEPT !.isInstalling = FALSE], "error")
          ELSE [started EXCEPT !.quitting = TRUE]

\* initAutoUpdater(mainWindow); fresh: mainWindow is a window that carries no
\* 'closed' handler of an earlier call yet. The handlers of autoUpdater are
\* registered once more (each sets the same status as the one before it), a
\* further 10-second timer is set, and checkInterval is overwritten
initAutoUpdater(u, fresh) ==
  [u EXCEPT !.win = TRUE,
            !.leaked = IF u.checkInterval THEN @ + 1 ELSE @,
            !.checkInterval = TRUE,
            !.firstCheck = @ + 1,
            !.windows = IF fresh THEN @ + 1 ELSE @,
            !.inits = @ + 1]

\* the updater module as it is loaded
LoadedUpdater ==
  [fn |-> "updater", currentStatus |-> "idle", reported |-> "idle", win |-> FALSE,
   checkInterval |-> FALSE, leaked |-> 0, firstCheck |-> 0, windows |-> 0,
   inits |-> 0, isInstalling |-> FALSE,
   checks |-> 0, downloads |-> 0, quitting |-> FALSE, running |-> TRUE]

\* the updater module after initAutoUpdater(mainWindow)
InitialUpdater == initAutoUpdater(LoadedUpdater, TRUE)

Updater(u) ==
  /\ call.fn = "updater"
  /\ call.running
  /\ call' = u
  /\ UNCHANGED <<sends, store, activeControllers, stoppedAll>>

\* checkForUpdates() is called and awaits autoUpdater.checkForUpdates()
CheckForUpdates ==
  /\ call.checks < MaxPending
  /\ Updater([call EXCEPT !.checks = @ + 1])

\* initAutoUpdater(mainWindow) is called once more
InitAutoUpdater(fresh) ==
  /\ call.inits < MaxInits
  /\ fresh \/ call.windows > 0
  /\ Updater(initAutoUpdater(call, fresh))

\* a 10-second timer of initAutoUpdater fires
FirstCheck ==
  /\ call.firstCheck > 0
  /\ call.checks < MaxPending
  /\ Updater([call EXCEPT !.firstCheck = @ - 1, !.checks = @ + 1])

\* a 4-hour interval fires
IntervalCheck ==
  /\ call.checkInterval \/ call.leaked > 0
  /\ call.checks < MaxPending
  /\ Updater([call EXCEPT !.checks = @ + 1])

\* autoUpdater.checkForUpdates() settles; ok: it resolved
CheckSettles(ok) ==
  /\ call.checks > 0
  /\ LET u == [call EXCEPT !.checks = @ - 1] IN
     Updater(IF ok THEN u ELSE setStatus(u, "error"))

\* downloadUpdate() is called and awaits autoUpdater.downloadUpdate()
DownloadUpdate ==
  /\ call.downloads < MaxPending
  /\ Updater([call EXCEPT !.downloads = @ + 1])

\* autoUpdater.downloadUpdate() settles; ok: it resolved
DownloadSettles(ok) ==
  /\ call.downloads > 0
  /\ LET u == [call EXCEPT !.downloads = @ - 1] IN
     Updater(IF ok THEN u ELSE setStatus(u, "error"))

\* autoUpdater emits one of its status events
OnUpdaterEvent(event) == Updater(setStatus(call, UpdaterEvents[event]))

\* autoUpdater emits 'error'
OnError == Updater(onError(call))

InstallUpdate(throws) == Updater(installUpdate(call, throws))

\* mainWindow.on('closed', ...): a window that was handed to initAutoUpdater
\* closes
WindowClosed ==
  /\ call.windows > 0
  /\ Updater([cleanupUpdater(call) EXCEPT !.win = FALSE, !.windows = @ - 1])

\* cleanupUpdater(), called by another module
CleanupUpdater == Updater(cleanupUpdater(call))

\* quitAndInstall, or one of the two backup timers, ends the process
AppExits ==
  /\ call.quitting
  /\ Updater([call EXCEPT !.running = FALSE])

InitUpdater ==
  /\ sends = [s \in Sends |-> InitSend]
  /\ store = [c \in Convs |-> <<>>]
  /\ activeControllers = [c \in Convs |-> None]
  /\ stoppedAll = FALSE
  /\ call = InitialUpdater

NextUpdater ==
  \/ \E fresh \in BOOLEAN : InitAutoUpdater(fresh)
  \/ CheckForUpdates
  \/ FirstCheck
  \/ IntervalCheck
  \/ \E ok \in BOOLEAN : CheckSettles(ok)
  \/ DownloadUpdate
  \/ \E ok \in BOOLEAN : DownloadSettles(ok)
  \/ \E event \in DOMAIN UpdaterEvents : OnUpdaterEvent(event)
  \/ OnError
  \/ \E throws \in BOOLEAN : InstallUpdate(throws)
  \/ WindowClosed
  \/ CleanupUpdater
  \/ AppExits

SpecUpdater == InitUpdater /\ [][NextUpdater]_vars


(* ---------------------------------------------------------------------- *)
(* McpServerForm (renderer/main.tsx:409-759)                               *)
(* call holds the React state of one mounted form, the connection test and *)
(* the submission in flight, and what was saved:                           *)
(*   server      the prop: present = FALSE in create mode                  *)
(*   name .. headersText, enabled, saving, testing, testResult             *)
(*               the useState cells                                        *)
(*   pending     the entry handed to testMcpServer, while the test runs    *)
(*   resultFor   history: the entry the test behind testResult ran against *)
(*   submitAt    the await handleSubmit is suspended at, or "none"         *)
(*   submitting  the entry of the render handleSubmit was clicked in       *)
(*   saved       the entry saveWorkspaceMcpConfig has written              *)
(*   open        the form is mounted: onSaved and onCancel hand control to *)
(*               the parent, which takes the form away                     *)
(* An absent property of an entry is "undefined" (a string) or <<>> (a     *)
(* list or record).                                                        *)
(* ---------------------------------------------------------------------- *)

\* what the user may type into the fields
TransportTypes == {"stdio", "http"}
Names == {"", "srv"}
Commands == {"", "cmd"}
ArgsTexts == {"", "a"}
EnvTexts == {"", "K=V"}
Urls == {"", "u"}
HeadersTexts == {"", "H: v"}

\* argsText.split(',').map((s) => s.trim()).filter(Boolean)
splitArgs(argsText) == IF argsText = "a" THEN <<"a">> ELSE <<>>

\* server.entry.args?.join(', ') ?? ''
joinArgs(args) == IF args = <<"a">> THEN "a" ELSE ""

\* parseKeyValueText(text, separator): the key/value pairs of the lines that
\* hold the separator after a non-empty key
parseKeyValueText(text, separator) ==
  CASE text = "K=V" /\ separator = "=" -> << <<"K", "V">> >>
    [] text = "H: v" /\ separator = ":" -> << <<"H", "v">> >>
    [] OTHER -> <<>>

\* serializeKeyValueText(record, separator)
serializeKeyValueText(record, separator) ==
  CASE record = << <<"K", "V">> >> /\ separator = "=" -> "K=V"
    [] record = << <<"H", "v">> >> /\ separator = ":" -> "H: v"
    [] record = << <<"K", "V">> >> /\ separator = ":" -> "K: V"
    [] record = << <<"H", "v">> >> /\ separator = "=" -> "H=v"
    [] OTHER -> ""

\* the connection fields of a McpServerEntry
Connection(type, command, args, env, url, headers) ==
  [type |-> type, command |-> command, args |-> args, env |-> env,
   url |-> url, headers |-> headers]

NoConnection == Connection("none", "undefined", <<>>, <<>>, "undefined", <<>>)

\* buildEntry(includeTestResult)
buildEntry(f, includeTestResult) ==
  [enabled |-> f.enabled /\ f.testResult = "ok",
   isBuiltin |-> f.server.present /\ f.server.entry.isBuiltin,
   lastTestResult |-> IF includeTestResult THEN f.testResult ELSE "null",
   connection |->
     IF f.transportType = "stdio"
     THEN Connection("stdio", f.command, splitArgs(f.argsText),
                     parseKeyValueText(f.envText, "="), "undefined", <<>>)
     ELSE Connection(f.transportType, "undefined", <<>>, <<>>, f.url,
                     parseKeyValueText(f.headersText, ":"))]

NoEntry ==
  [enabled |-> FALSE, isBuiltin |-> FALSE, lastTestResult |-> "null",
   connection |-> NoConnection]

\* the useEffect on [transportType, command, url, argsText, envText, headersText, server]
configChangeEffect(f) ==
  IF ~f.server.present THEN f
  ELSE LET entry == f.server.entry.connection
           configChanged ==
             \/ f.transportType # entry.type
             \/ f.transportType = "stdio" /\ f.command # entry.command
             \/ f.transportType # "stdio" /\ f.url # entry.url
             \/ f.argsText # joinArgs(entry.args)
             \/ f.envText # serializeKeyValueText(entry.env, "=")
             \/ f.headersText # serializeKeyValueText(entry.headers, ":")
       IN IF configChanged THEN [f EXCEPT !.testResult = "null", !.enabled = FALSE]
          ELSE f

\* canSubmit(), canTest()
canSubmit(f) ==
  /\ f.name # ""
  /\ ~(f.transportType = "stdio" /\ f.command = "")
  /\ ~(f.transportType # "stdio" /\ f.url = "")

\* the useState initialisers of the form mounted with the given server prop
MountedForm(server) ==
  LET entry == server.entry.connection IN
  [fn |-> "McpServerForm", server |-> server,
   name |-> IF server.present THEN server.name ELSE "",
   transportType |-> IF server.present THEN entry.type ELSE "stdio",
   enabled |-> server.present /\ server.entry.enabled,
   command |-> IF server.present /\ entry.command # "undefined" THEN entry.command ELSE "",
   argsText |-> IF server.present THEN joinArgs(entry.args) ELSE "",
   envText |-> IF server.present THEN serializeKeyValueText(entry.env, "=") ELSE "",
   url |-> IF server.present /\ entry.url # "undefined" THEN entry.url ELSE "",
   headersText |-> IF server.present THEN serializeKeyValueText(entry.headers, ":") ELSE "",
   saving |-> FALSE,
   testing |-> FALSE,
   testResult |-> IF server.present THEN server.entry.lastTestResult ELSE "null",
   pending |-> NoConnection,
   resultFor |-> IF server.present /\ server.entry.lastTestResult # "null"
                 THEN entry ELSE NoConnection,
   submitAt |-> "none",
   submitting |-> NoEntry,
   saved |-> NoEntry,
   open |-> TRUE]

\* the connections of the servers a workspace configuration holds
SavedConnections ==
  {Connection("stdio", "cmd", <<>>, <<>>, "undefined", <<>>),
   Connection("http", "undefined", <<>>, <<>>, "u", << <<"H", "v">> >>)}

\* the server prop: null, or a server of the workspace configuration, saved
\* untested and disabled or tested and enabled (buildEntry enables an entry
\* only with a successful test result)
ServerProps ==
  {[present |-> FALSE, name |-> "", entry |-> NoEntry]}
    \cup {[present |-> TRUE, name |-> "srv",
           entry |-> [enabled |-> r = "ok", isBuiltin |-> b,
                      lastTestResult |-> r, connection |-> c]] :
            r \in {"null", "ok"}, b \in BOOLEAN, c \in SavedConnections}

\* a handler or a continuation of the form sets call to f
Handler(f) ==
  /\ call.fn = "McpServerForm"
  /\ call' = f
  /\ UNCHANGED <<sends, store, activeControllers, stoppedAll>>

\* an event of the mounted form
Form(f) ==
  /\ call.fn = "McpServerForm"
  /\ call.open
  /\ Handler(f)

\* const isBuiltin = server?.entry.isBuiltin === true
isBuiltin(f) == f.server.present /\ f.server.entry.isBuiltin

\* the input of the field is rendered and not disabled
Editable(f, field) ==
  CASE field = "transportType" -> ~isBuiltin(f)
    [] field \in {"command", "argsText"} ->
         f.transportType = "stdio" /\ ~isBuiltin(f)
    [] field = "envText" -> f.transportType = "stdio"
    [] field \in {"url", "headersText"} -> f.transportType # "stdio"

\* the name input (disabled in edit mode)
SetName(value) ==
  /\ ~call.server.present
  /\ Form([call EXCEPT !.name = value])

\* one of the connection inputs changes; the effect runs after the render
SetField(field, value) ==
  /\ Editable(call, field)
  /\ call[field] # value
  /\ Form(configChangeEffect([call EXCEPT ![field] = value]))

\* the enable switch (disabled unless the test result is a success)
SetEnabled(value) ==
  /\ call.testResult = "ok"
  /\ Form([call EXCEPT !.enabled = value])

\* handleTest, up to await window.electronAPI.testMcpServer(serverName, entry)
HandleTest ==
  /\ ~call.testing
  /\ canSubmit(call)
  /\ Form([call EXCEPT !.testing = TRUE, !.testResult = "null",
                       !.pending = buildEntry(call, FALSE).connection])

\* testMcpServer settles: it resolved with success or failure, or it rejected
TestSettles(outcome) ==
  /\ call.testing
  /\ Form([call EXCEPT !.testing = FALSE,
                       !.testResult = IF outcome = "success" THEN "ok" ELSE "fail",
                       !.resultFor = call.pending,
                       !.pending = NoConnection])

\* handleSubmit, up to await window.electronAPI.getWorkspaceMcpConfig; the
\* buildEntry(true) that follows the await reads the state of this render
HandleSubmit ==
  /\ ~call.saving
  /\ canSubmit(call)
  /\ call.submitAt = "none"
  /\ Form([call EXCEPT !.saving = TRUE,
                       !.submitAt = "getWorkspaceMcpConfig",
                       !.submitting = buildEntry(call, TRUE)])

\* the parent takes the form away: its state cells are gone; a submission in
\* flight goes on
Unmounted(f) ==
  [MountedForm(f.server) EXCEPT !.open = FALSE, !.resultFor = f.resultFor,
                                !.submitAt = f.submitAt,
                                !.submitting = f.submitting, !.saved = f.saved]

\* catch and finally of handleSubmit
submitFailed(f) ==
  [f EXCEPT !.saving = FALSE, !.submitAt = "none", !.submitting = NoEntry]

\* getWorkspaceMcpConfig settles; handleSubmit goes on to
\* await window.electronAPI.saveWorkspaceMcpConfig(workspaceSlug, newConfig)
ConfigRead(ok) ==
  /\ call.submitAt = "getWorkspaceMcpConfig"
  /\ Handler(IF ok THEN [call EXCEPT !.submitAt = "saveWorkspaceMcpConfig"]
                   ELSE submitFailed(call))

\* saveWorkspaceMcpConfig settles; onSaved() after a save that succeeded
SaveSettles(ok) ==
  /\ call.submitAt = "saveWorkspaceMcpConfig"
  /\ Handler(IF ok THEN Unmounted([submitFailed(call) EXCEPT
                                      !.saved = call.submitting])
                   ELSE submitFailed(call))

\* one of the two cancel buttons: onCancel
Cancel ==
  /\ call.open
  /\ Form(Unmounted(call))

InitForm ==
  /\ sends = [s \in Sends |-> InitSend]
  /\ store = [c \in Convs |-> <<>>]
  /\ activeControllers = [c \in Convs |-> None]
  /\ stoppedAll = FALSE
  /\ call \in {MountedForm(server) : server \in ServerProps}

NextForm ==
  \/ \E value \in Names : SetName(value)
  \/ \E value \in TransportTypes : SetField("transportType", value)
  \/ \E value \in Commands : SetField("command", value)
  \/ \E value \in ArgsTexts : SetField("argsText", value)
  \/ \E value \in EnvTexts : SetField("envText", value)
  \/ \E value \in Urls : SetField("url", value)
  \/ \E value \in HeadersTexts : SetField("headersText", value)
  \/ \E value \in BOOLEAN : SetEnabled(value)
  \/ HandleTest
  \/ \E outcome \in {"success", "failure", "rejected"} : TestSettles(outcome)
  \/ HandleSubmit
  \/ \E ok \in BOOLEAN : ConfigRead(ok)
  \/ \E ok \in BOOLEAN : SaveSettles(ok)
  \/ Cancel

SpecForm == InitForm /\ [][NextForm]_vars


(* ---------------------------------------------------------------------- *)
(* Shortcuts (renderer/atoms/shortcut.ts:54-97)                            *)
(* A string is the sequence of its characters. call holds the event given  *)
(* to the recorder, the shortcut recorded from it, a later keydown event   *)
(* and whether it matched.                                                 *)
(* ---------------------------------------------------------------------- *)

\* the key values of the events, among them '+', ' ', an upper-case letter,
\* a named key and keys the recorder ignores
Keys ==
  {<<"n">>, <<"N">>, <<"+">>, <<" ">>, <<"F", "1">>,
   <<"S", "h", "i", "f", "t">>, <<"T", "a", "b">>}

KeyboardEvents ==
  [key : Keys, metaKey : BOOLEAN, ctrlKey : BOOLEAN, altKey : BOOLEAN,
   shiftKey : BOOLEAN]

\* String.prototype.toLowerCase
toLowerCase(str) ==
  LET lower == [c \in {"N", "F", "S", "T"} |->
                  CASE c = "N" -> "n" [] c = "F" -> "f" [] c = "S" -> "s"
                    [] OTHER -> "t"]
  IN [i \in DOMAIN str |-> IF str[i] \in DOMAIN lower THEN lower[str[i]] ELSE str[i]]

\* str.split('+'), from position i, with the part being read and the parts read
RECURSIVE SplitFrom(_, _, _, _)
SplitFrom(str, i, part, parts) ==
  IF i > Len(str) THEN Append(parts, part)
  ELSE IF str[i] = "+" THEN SplitFrom(str, i + 1, <<>>, Append(parts, part))
  ELSE SplitFrom(str, i + 1, Append(part, str[i]), parts)

split(str) == SplitFrom(str, 1, <<>>, <<>>)

\* parts.join('+')
RECURSIVE join(_)
join(parts) ==
  IF Len(parts) = 0 THEN <<>>
  ELSE IF Len(parts) = 1 THEN parts[1]
  ELSE parts[1] \o <<"+">> \o join(Tail(parts))

meta == <<"m", "e", "t", "a">>
ctrl == <<"c", "t", "r", "l">>
alt == <<"a", "l", "t">>
shift == <<"s", "h", "i", "f", "t">>

\* the keys shortcutFromEvent ignores, as far as they occur in Keys
ignoredKeys == {<<"S", "h", "i", "f", "t">>, <<"T", "a", "b">>}

\* string | null
NullString == [null |-> TRUE, value |-> <<>>]
String(value) == [null |-> FALSE, value |-> value]

\* matchesShortcut(e, shortcut)
matchesShortcut(e, shortcut) ==
  IF shortcut = <<>> THEN FALSE
  ELSE LET parts == split(toLowerCase(shortcut))
           key == parts[Len(parts)]
           modifiers == {parts[i] : i \in 1..(Len(parts) - 1)}
       IN /\ toLowerCase(e.key) = key
          /\ (meta \in modifiers) = e.metaKey
          /\ (ctrl \in modifiers) = e.ctrlKey
          /\ (alt \in modifiers) = e.altKey
          /\ (shift \in modifiers) = e.shiftKey

\* shortcutFromEvent(e)
shortcutFromEvent(e) ==
  IF e.key \in ignoredKeys THEN NullString
  ELSE LET parts == (IF e.metaKey THEN <<meta>> ELSE <<>>)
                      \o (IF e.ctrlKey THEN <<ctrl>> ELSE <<>>)
                      \o (IF e.altKey THEN <<alt>> ELSE <<>>)
                      \o (IF e.shiftKey THEN <<shift>> ELSE <<>>)
       IN IF Len(parts) = 0 THEN NullString
          ELSE String(join(Append(parts, toLowerCase(e.key))))

\* the recorder receives a keydown event
ShortcutFromEvent ==
  /\ call.fn = "shortcut"
  /\ call.status = "recording"
  /\ call' = [call EXCEPT !.status = "recorded", !.shortcut = shortcutFromEvent(call.e)]
  /\ UNCHANGED <<sends, store, activeControllers, stoppedAll>>

\* a later keydown event is compared with the recorded shortcut
MatchesShortcut(e) ==
  /\ call.fn = "shortcut"
  /\ call.status = "recorded"
  /\ ~call.shortcut.null
  /\ call' = [call EXCEPT !.status = "compared", !.pressed = e,
                          !.matched = matchesShortcut(e, call.shortcut.value)]
  /\ UNCHANGED <<sends, store, activeControllers, stoppedAll>>

InitShortcut ==
  /\ sends = [s \in Sends |-> InitSend]
  /\ store = [c \in Convs |-> <<>>]
  /\ activeControllers = [c \in Convs |-> None]
  /\ stoppedAll = FALSE
  /\ call \in [fn : {"shortcut"}, status : {"recording"}, e : KeyboardEvents,
               shortcut : {NullString}, pressed : {CHOOSE e \in KeyboardEvents : TRUE},
               matched : {FALSE}]

NextShortcut ==
  \/ ShortcutFromEvent
  \/ \E e \in KeyboardEvents : MatchesShortcut(e)

SpecShortcut == InitShortcut /\ [][NextShortcut]_vars


(* ---------------------------------------------------------------------- *)
(* generateTitle (chat-service.ts)                                         *)
(* ---------------------------------------------------------------------- *)

\* messages of at most this length (after trim) are their own title
SHORT_MESSAGE_THRESHOLD == 4

\* longest title returned
MAX_TITLE_LENGTH == 20

\* n times the character c
Rep(c, n) == [i \in 1..n |-> c]

\* String.prototype.slice(0, n)
Slice(str, n) == SubSeq(str, 1, IF Len(str) <= n THEN Len(str) ELSE n)

\* the quote characters of the cleaning expression (the ASCII ones; the
\* typographic ones are treated alike by the code)
QuoteChars == {"\"", "'"}

\* replace(/^[quotes]+|[quotes]+$/g, ''): the leading and the trailing run of
\* quote characters are removed
StripQuotes(str) ==
  LET idx == {i \in 1..Len(str) : str[i] \notin QuoteChars}
  IN IF idx = {} THEN <<>> ELSE SubSeq(str, SetMin(idx), SetMax(idx))

\* first user messages: empty, whitespace only, up to the threshold after
\* trimming, one above it, and longer than a title
UserMessages ==
  {<<>>, <<" ">>, Rep(" ", 6), <<"a">>, Rep("a", 4),
   <<" ">> \o Rep("a", 4) \o <<" ", " ">>, Rep("a", 5),
   <<"a", " ", "a", " ", "a">>, <<" ">> \o Rep("a", 5), Rep("a", 25)}

\* what fetchTitle resolves to: null, or the text the adapter's
\* parseTitleResponse took from the response
TitleTexts ==
  {<<>>, <<" ">>, <<"\"">>, <<"\"", " ", "'">>, <<"a">>,
   <<"\"", "a", "b", "\"">>, <<" ", "'", "a", "'", " ">>,
   <<"a", "\"", "b">>, Rep("a", 20), Rep("a", 21),
   <<" ", "\"">> \o Rep("a", 22) \o <<"\"", " ">>,
   Rep("a", 19) \o <<" ", "b">>}

FetchTitleOutcomes ==
  {[kind |-> "throws", title |-> NullString],
   [kind |-> "returns", title |-> NullString]}
    \cup {[kind |-> "returns", title |-> String(t)] : t \in TitleTexts}

\* title.trim().replace(...).trim(), then slice(0, MAX_TITLE_LENGTH) || null
CleanTitle(title) ==
  LET cleaned == Trim(StripQuotes(Trim(title)))
      result == Slice(cleaned, MAX_TITLE_LENGTH)
  IN IF result = <<>> THEN NullString ELSE String(result)

\* return of generateTitle: the promise resolves with result
titleReturns(c, result) == [c EXCEPT !.status = "done", !.result = result]

\* generateTitle(input), up to its return or to await getEffectiveProxyUrl().
\* channelFound: listChannels() holds input.channelId; keyDecrypts:
\* decryptApiKey returns; builds: getAdapter and buildTitleRequest return
generateTitle(c) ==
  LET trimmedMessage == Trim(c.userMessage)
  IN IF Len(trimmedMessage) <= SHORT_MESSAGE_THRESHOLD
     THEN titleReturns(c, String(Slice(trimmedMessage, MAX_TITLE_LENGTH)))
     ELSE IF ~c.channelFound THEN titleReturns(c, NullString)
     ELSE IF ~c.keyDecrypts THEN titleReturns(c, NullString)
     ELSE IF ~c.builds THEN titleReturns(c, NullString)
     ELSE [c EXCEPT !.status = "getEffectiveProxyUrl"]

\* getEffectiveProxyUrl settles, then getFetchFn(proxyUrl) and the call of
\* fetchTitle(request, adapter, fetchFn), up to its await
proxyUrlSettles(c) ==
  IF c.proxy = "rejects" \/ ~c.fetchFn THEN titleReturns(c, NullString)
  ELSE [c EXCEPT !.status = "fetchTitle", !.fetches = @ + 1]

\* fetchTitle settles, to the return of generateTitle
fetchTitleSettles(c) ==
  IF c.fetched.kind = "throws" THEN titleReturns(c, NullString)
  ELSE IF c.fetched.title.null \/ c.fetched.title.value = <<>>
  THEN titleReturns(c, NullString)
  ELSE titleReturns(c, CleanTitle(c.fetched.title.value))

\* a call of generateTitle about to be made, with what its calls will do
GenerateTitleCalls ==
  [fn : {"generateTitle"}, status : {"idle"}, userMessage : UserMessages,
   channelFound : BOOLEAN, keyDecrypts : BOOLEAN, builds : BOOLEAN,
   proxy : {"resolves", "rejects"}, fetchFn : BOOLEAN,
   fetched : FetchTitleOutcomes,
   threw : {FALSE}, fetches : {0}, result : {NullString}]

TitleStep(c) ==
  /\ call.fn = "generateTitle"
  /\ call' = c
  /\ UNCHANGED <<sends, store, activeControllers, stoppedAll>>

\* generateTitle is called
GenerateTitle ==
  /\ call.status = "idle"
  /\ TitleStep(generateTitle(call))

\* the promise of getEffectiveProxyUrl settles
ProxyUrlSettles ==
  /\ call.status = "getEffectiveProxyUrl"
  /\ TitleStep(proxyUrlSettles(call))

\* the promise of fetchTitle settles
FetchTitleSettles ==
  /\ call.status = "fetchTitle"
  /\ TitleStep(fetchTitleSettles(call))

InitGenTitle ==
  /\ sends = [s \in Sends |-> InitSend]
  /\ store = [c \in Convs |-> <<>>]
  /\ activeControllers = [c \in Convs |-> None]
  /\ stoppedAll = FALSE
  /\ call \in GenerateTitleCalls

NextGenTitle ==
  \/ GenerateTitle
  \/ ProxyUrlSettles
  \/ FetchTitleSettles

\* generateTitle, called once with each message and each outcome of its calls
SpecGenTitle == InitGenTitle /\ [][NextGenTitle]_vars


(* ---------------------------------------------------------------------- *)
(* Vocabulary of the properties                                            *)
(* ---------------------------------------------------------------------- *)

\* sendMessage has returned or thrown
Ended(s) == sends[s].pc \in {"done", "threw"}

\* a generation: from registering the handle to the terminal event
InFlight(s) == sends[s].pc \in {"proxy", "stream", "tool"}

\* positions in the history store of the assistant messages appended by s
AssistantMsgsOf(s) ==
  {p \in UNION {{<<c, i>> : i \in DOMAIN store[c]} : c \in Convs} :
     /\ store[p[1]][p[2]].role = "assistant"
     /\ SenderOf(store[p[1]][p[2]].id) = s}

MsgAt(p) == store[p[1]][p[2]]

Complete(messageId) == [type |-> "complete", messageId |-> messageId]

\* a step of s that settles an awaited tool call
ToolStep(s) ==
  /\ sends[s].pc = "tool"
  /\ sends'[s].pc # "tool" \/ sends'[s].toolResults # sends[s].toolResults

(* ---------------------------------------------------------------------- *)
(* C1 .. C10                                                               *)
(* ---------------------------------------------------------------------- *)

\* C1: every sendMessage invocation that has ended emitted exactly one terminal
\* event (STREAM_COMPLETE or STREAM_ERROR) and no chunk or tool-activity event
\* after it; an invocation still running has emitted at most one.
C1_ExactlyOneTerminal ==
  \A s \in Sends :
    /\ ~sends[s].late
    /\ Len(sends[s].terminal) <= 1
    /\ Ended(s) => Len(sends[s].terminal) = 1

\* C2: one invocation performs at most MAX_TOOL_ROUNDS request/stream cycles,
\* whatever the provider answers.
C2_BoundedRounds == \A s \in Sends : sends[s].cycles <= MAX_TOOL_ROUNDS

\* the provider answered round MAX_TOOL_ROUNDS with tool_use and a memory tool call
C2_Witness ==
  \E s \in Sends : sends[s].pc = "tool" /\ sends[s].cycles = MAX_TOOL_ROUNDS

\* C3: a send cancelled while its stream is in progress ends with STREAM_COMPLETE;
\* with content accumulated it has appended exactly one assistant message, with
\* exactly that content and stopped = true, and the event carries its id; with
\* no content it has appended none and the event carries no messageId.
C3_CancelMidStream ==
  \A s \in Sends :
    Ended(s) /\ sends[s].signal = "stream" =>
      IF sends[s].accumulatedContent # <<>>
      THEN /\ Cardinality(AssistantMsgsOf(s)) = 1
           /\ \A p \in AssistantMsgsOf(s) :
                /\ MsgAt(p).content = sends[s].accumulatedContent
                /\ MsgAt(p).stopped
                /\ sends[s].terminal = <<Complete(MsgAt(p).id)>>
      ELSE /\ AssistantMsgsOf(s) = {}
           /\ sends[s].terminal = <<Complete(None)>>

\* C3, for the invocations that returned: it holds whenever the store accepted
\* the append of the partial message.
C3_ReturnedCancelMidStream ==
  \A s \in Sends :
    sends[s].pc = "done" /\ sends[s].signal = "stream" =>
      IF sends[s].accumulatedContent # <<>>
      THEN /\ Cardinality(AssistantMsgsOf(s)) = 1
           /\ \A p \in AssistantMsgsOf(s) :
                /\ MsgAt(p).content = sends[s].accumulatedContent
                /\ MsgAt(p).stopped
                /\ sends[s].terminal = <<Complete(MsgAt(p).id)>>
      ELSE /\ AssistantMsgsOf(s) = {}
           /\ sends[s].terminal = <<Complete(None)>>

\* C4: at most one generation is in flight per conversation id.
C4_OneInFlightPerConversation ==
  \A c \in Convs :
    Cardinality({s \in Sends : InFlight(s) /\ sends[s].conv = c}) <= 1

\* C5: an invocation appends at most one assistant message over its lifetime,
\* and exactly one when it ended with STREAM_COMPLETE after content with
\* non-whitespace text had accumulated.
C5_PersistedOnce ==
  \A s \in Sends :
    /\ Cardinality(AssistantMsgsOf(s)) <= 1
    /\ ( /\ sends[s].pc = "done"
         /\ sends[s].terminal # <<>>
         /\ sends[s].terminal[Len(sends[s].terminal)].type = "complete"
         /\ Trim(sends[s].accumulatedContent) # <<>> )
       => Cardinality(AssistantMsgsOf(s)) = 1

\* a cancelled send ended with STREAM_COMPLETE and its partial content persisted
C5_Witness ==
  \E s \in Sends :
    /\ sends[s].pc = "done"
    /\ sends[s].signal = "stream"
    /\ Trim(sends[s].accumulatedContent) # <<>>
    /\ \E p \in AssistantMsgsOf(s) : sends[s].terminal = <<Complete(MsgAt(p).id)>>

\* The whole of C6, over every ended invocation: a send whose cancellation handle
\* was signalled before its terminal event ends with STREAM_COMPLETE, never
\* STREAM_ERROR, and every assistant turn it persisted carries stopped = true.
C6_CancelledEndsComplete ==
  \A s \in Sends :
    Ended(s) /\ Aborted(sends[s]) =>
      /\ Len(sends[s].terminal) = 1
      /\ sends[s].terminal[1].type = "complete"
      /\ \A p \in AssistantMsgsOf(s) : MsgAt(p).stopped

\* C6, for the invocations that returned: a send whose cancellation handle was
\* signalled before its terminal event and that has returned emitted
\* STREAM_COMPLETE, and every assistant turn it persisted carries stopped = true.
\* (C6_CancelledEndsComplete implies it; it leaves the invocations that threw,
\* which C1 is about, aside.)
C6_ReturnedCancelledEndsStopped ==
  \A s \in Sends :
    sends[s].pc = "done" /\ Aborted(sends[s]) =>
      /\ sends[s].terminal[1].type = "complete"
      /\ \A p \in AssistantMsgsOf(s) : MsgAt(p).stopped

\* C7: in every tool round the tool continuation message holds exactly one
\* ToolResult per tool call of the round, in call order, and the result of a
\* call whose name is no memory tool has isError = true.
C7_OneResultPerCall ==
  \A s \in Sends :
    \A k \in 1..(Len(sends[s].continuationMessages) \div 2) :
      LET calls == sends[s].continuationMessages[2 * k - 1].toolCalls
          results == sends[s].continuationMessages[2 * k].results
      IN /\ Len(results) = Len(calls)
         /\ \A j \in 1..Len(calls) :
              /\ results[j].toolCallId = calls[j].id
              /\ calls[j].name \notin {"recall_memory", "add_memory"}
                   => results[j].isError


\* the ToolResult that a tool step of s has just recorded
NewResult(s) ==
  IF sends'[s].pc = "tool"
  THEN sends'[s].toolResults[Len(sends'[s].toolResults)]
  ELSE LET turn == sends'[s].continuationMessages[Len(sends'[s].continuationMessages)]
       IN turn.results[Len(turn.results)]

\* C8, the part that holds: when executing a tool call throws, the call still
\* yields a ToolResult with isError = true for the same toolCallId; the next
\* tool call of the round that line 426 dispatches, if any, is executed; after
\* the last one the loop goes on to the next round, whose request carries that
\* result, unless the round was round MAX_TOOL_ROUNDS, where the loop ends as
\* it does without tool calls; the send emits STREAM_ERROR on that step only if
\* persisting the final message failed.
C8_ToolFailureContained ==
  [][\A s \in Sends :
       ToolStep(s) /\ sends'[s].activity.result = "failed" =>
         LET tc == sends[s].toolCalls[sends[s].toolIdx]
             rest == {j \in (sends[s].toolIdx + 1)..Len(sends[s].toolCalls) :
                        sends[s].toolCalls[j].name \in {"recall_memory", "add_memory"}}
         IN /\ sends'[s].activity.type = "result"
            /\ sends'[s].activity.toolCallId = tc.id
            /\ sends'[s].activity.isError
            /\ rest # {} =>
                 /\ sends'[s].pc = "tool"
                 /\ sends'[s].toolIdx = SetMin(rest)
            /\ rest = {} /\ sends[s].round < MAX_TOOL_ROUNDS =>
                 /\ sends'[s].pc = "stream"
                 /\ sends'[s].cycles = sends[s].cycles + 1
                 /\ sends'[s].request = sends'[s].continuationMessages
            /\ rest = {} /\ sends[s].round >= MAX_TOOL_ROUNDS =>
                 /\ Ended(s)'
                 /\ \A i \in DOMAIN sends'[s].terminal :
                      sends'[s].terminal[i].type = "error" =>
                        /\ PersistOnFinish(sends[s].accumulatedContent)
                        /\ AssistantMsgsOf(s)' = {}
            /\ sends'[s].pc \in {"tool", "stream"} =>
                 /\ sends'[s].terminal = <<>>
                 /\ NewResult(s).toolCallId = tc.id
                 /\ NewResult(s).isError
                 /\ NewResult(s).content = "failed"
     ]_vars

\* C8: when executing a tool call throws, the call yields a ToolResult with
\* isError = true for the same toolCallId; the send emits no STREAM_ERROR; the
\* remaining tool calls of the round are still executed, the next one first;
\* and after the last one the loop proceeds to the next round, whose request
\* carries that result.
C8_FailureProceedsToNextRound ==
  [][\A s \in Sends :
       ToolStep(s) /\ sends'[s].activity.result = "failed" =>
         LET i == sends[s].toolIdx
             tc == sends[s].toolCalls[i]
         IN /\ sends'[s].activity.type = "result"
            /\ sends'[s].activity.toolCallId = tc.id
            /\ sends'[s].activity.isError
            /\ \A k \in DOMAIN sends'[s].terminal :
                 sends'[s].terminal[k].type # "error"
            /\ i < Len(sends[s].toolCalls) =>
                 /\ sends'[s].pc = "tool"
                 /\ sends'[s].toolIdx = i + 1
            /\ i = Len(sends[s].toolCalls) =>
                 /\ sends'[s].pc = "stream"
                 /\ NewResult(s).toolCallId = tc.id
                 /\ NewResult(s).isError
                 /\ sends'[s].request = sends'[s].continuationMessages
     ]_vars

\* C9: once an invocation has ended the registry holds no handle it created,
\* and whenever no send is in flight the registry is empty.
C9_NoStaleHandles ==
  /\ \A s \in Sends : Ended(s) => \A c \in Convs : activeControllers[c] # s
  /\ (\A s \in Sends : ~InFlight(s)) => \A c \in Convs : activeControllers[c] = None

\* two sends have registered and ended, one normally and one cancelled
C9_Witness ==
  \E s, t \in Sends :
    /\ sends[s].pc = "done" /\ sends[s].cycles >= 1 /\ ~Aborted(sends[s])
    /\ sends[t].pc = "done" /\ Aborted(sends[t])
    /\ \A u \in Sends : ~InFlight(u)

\* C10: stopGeneration(id) aborts exactly the handle registered for id and
\* removes that mapping, or changes nothing when there is none; the handles and
\* mappings of every other conversation id stay as they were.
C10_StopGenerationFrame ==
  [][\A c \in Convs :
       stopGeneration(c) =>
         LET h == activeControllers[c] IN
         IF h = None
         THEN UNCHANGED vars
         ELSE /\ Aborted(sends'[h])
              /\ sends'[h] = [sends[h] EXCEPT !.signal = sends'[h].signal]
              /\ \A t \in Sends \ {h} : sends'[t] = sends[t]
              /\ activeControllers'[c] = None
              /\ \A d \in Convs \ {c} : activeControllers'[d] = activeControllers[d]
              /\ store' = store
     ]_vars

\* one conversation was stopped while another one is in flight, still registered
\* and not aborted
C10_Witness ==
  \E s, t \in Sends :
    /\ sends[s].conv # sends[t].conv
    /\ InFlight(s) /\ Aborted(sends[s]) /\ activeControllers[sends[s].conv] = None
    /\ InFlight(t) /\ ~Aborted(sends[t]) /\ activeControllers[sends[t].conv] = t

(* ---------------------------------------------------------------------- *)
(* C11 .. C20                                                              *)
(* ---------------------------------------------------------------------- *)

RegistryEmpty == \A c \in Convs : activeControllers[c] = None

\* C11 (amended): stopAllGenerations aborts every registered handle, touches no
\* other handle and leaves the registry empty; the registry then stays empty
\* until a send registers its handle, and while it is empty every
\* stopGeneration(id) and every stopAllGenerations changes no state and aborts
\* nothing.
C11_StopAllIdempotent ==
  [][ /\ stopAllGenerations =>
           /\ \A s \in Sends :
                 IF \E c \in Convs : activeControllers[c] = s
                 THEN /\ Aborted(sends'[s])
                      /\ sends'[s] = [sends[s] EXCEPT !.signal = sends'[s].signal]
                 ELSE sends'[s] = sends[s]
           /\ RegistryEmpty'
           /\ store' = store
      /\ RegistryEmpty =>
           /\ (\A s \in Sends, ok \in BOOLEAN : ~Register(s, ok)) => RegistryEmpty'
           /\ \A c \in Convs :
                 stopGeneration(c) => UNCHANGED <<sends, store, activeControllers>>
           /\ stopAllGenerations => UNCHANGED <<sends, store, activeControllers>>
    ]_vars

\* stopAllGenerations has aborted the handles of two conversations at once and
\* the registry is empty, with both sends still running
C11_Witness ==
  /\ stoppedAll
  /\ RegistryEmpty
  /\ \E s, t \in Sends :
       /\ s # t
       /\ InFlight(s) /\ sends[s].signal = sends[s].pc
       /\ InFlight(t) /\ sends[t].signal = sends[t].pc

\* C11 as stated: after stopAllGenerations, and as long as no new send has
\* been started, every stopGeneration(id) and every stopAllGenerations changes
\* no state and aborts nothing.
C11_NoOpUntilNextSend ==
  [][ stoppedAll =>
        /\ \A c \in Convs :
              stopGeneration(c) => UNCHANGED <<sends, store, activeControllers>>
        /\ stopAllGenerations => UNCHANGED <<sends, store, activeControllers>>
    ]_vars

\* a filterHistory call that has returned
FilterDone == call.fn = "filterHistory" /\ call.status = "done"

IsSuffix(r, h) == Len(r) <= Len(h) /\ r = SubSeq(h, Len(h) - Len(r) + 1, Len(h))

UserCount(h) == Cardinality({i \in 1..Len(h) : h[i].role = "user"})

Min(a, b) == IF a <= b THEN a ELSE b

\* the history without its blank assistant messages
WithoutBlankAssistants(h) ==
  SelectSeq(h, LAMBDA m : m.role = "user" \/ \E i \in 1..Len(m.content) :
                                                 m.content[i] # " ")

\* the divider-trimmed history of C12: of the history without blank assistant
\* messages, what follows the message named by the last id of the list
Trimmed(h, dividers) ==
  LET f == WithoutBlankAssistants(h)
      at == IF dividers = <<>> THEN {}
            ELSE {i \in 1..Len(f) : f[i].id = dividers[Len(dividers)]}
  IN IF at = {} THEN f ELSE SubSeq(f, SetMax(at) + 1, Len(f))

\* C12: filterHistory returns a contiguous suffix of the divider-trimmed history
\* without blank assistant messages; with a policy P that is a non-negative
\* integer the result holds exactly min(P, user messages of the trimmed
\* history) user messages and is empty for P = 0; with P 'infinite' or
\* undefined it is the whole trimmed history.
C12_FilterHistoryRounds ==
  FilterDone =>
    LET T == Trimmed(call.messageHistory, call.contextDividers)
        P == call.contextLength
        R == call.result
    IN /\ IsSuffix(R, T)
       /\ P.kind = "number" /\ P.n >= 0 => UserCount(R) = Min(P.n, UserCount(T))
       /\ P.kind = "number" /\ P.n = 0 => R = <<>>
       /\ P.kind \in {"infinite", "undefined"} => R = T

\* a call with a divider that is found and more rounds after it than the policy
\* admits returned a proper, non-empty suffix of the trimmed history
C12_Witness ==
  /\ FilterDone
  /\ call.contextLength = ContextLengthNumber(1)
  /\ call.contextDividers # <<>>
  /\ LET T == Trimmed(call.messageHistory, call.contextDividers)
     IN /\ Len(T) < Len(WithoutBlankAssistants(call.messageHistory))
        /\ UserCount(T) = 2
        /\ call.result # <<>>
        /\ Len(call.result) < Len(T)

\* positions, in the history without blank assistant messages, of the messages
\* named by some id of the divider list
DividerPositions(h, dividers) ==
  LET f == WithoutBlankAssistants(h)
  IN {i \in 1..Len(f) : \E k \in 1..Len(dividers) : f[i].id = dividers[k]}

\* C13 (amended): when the divider list is not empty and its last id names a
\* message of the history without blank assistant messages, filterHistory
\* returns no message at or before that message, and returns what the policy
\* keeps of the messages strictly after it; when the last id names no such
\* message the dividers have no effect, whatever the other ids of the list name.
C13_AfterLastListedDivider ==
  FilterDone =>
    LET f == WithoutBlankAssistants(call.messageHistory)
        d == call.contextDividers
        at == IF d = <<>> THEN {} ELSE {i \in 1..Len(f) : f[i].id = d[Len(d)]}
    IN IF at # {}
       THEN /\ \A i \in 1..Len(f) :
                 i <= SetMax(at) =>
                   \A j \in 1..Len(call.result) : call.result[j].id # f[i].id
            /\ call.result =
                 filterHistory(SubSeq(f, SetMax(at) + 1, Len(f)), <<>>,
                               call.contextLength)
       ELSE call.result = filterHistory(call.messageHistory, <<>>, call.contextLength)

\* the last of two dividers that are both found cut the history, and messages
\* after it were returned
C13_Witness ==
  /\ FilterDone
  /\ Len(call.contextDividers) = 2
  /\ call.contextDividers[1] # call.contextDividers[2]
  /\ Cardinality(DividerPositions(call.messageHistory, call.contextDividers)) = 2
  /\ call.result # <<>>
  /\ Len(call.result) < Len(WithoutBlankAssistants(call.messageHistory))
  /\ call.contextLength = ContextLengthInfinite

\* C13 as stated: when some id of the divider list is found in the history without blank
\* assistant messages, no message at or before the last such position is
\* returned; when none is found the dividers have no effect.
C13_AfterLastFoundDivider ==
  FilterDone =>
    LET f == WithoutBlankAssistants(call.messageHistory)
        at == DividerPositions(call.messageHistory, call.contextDividers)
    IN IF at # {}
       THEN \A i \in 1..Len(f) :
              i <= SetMax(at) =>
                \A j \in 1..Len(call.result) : call.result[j].id # f[i].id
       ELSE call.result = filterHistory(call.messageHistory, <<>>, call.contextLength)

\* C14: parseSSELine of either adapter never throws: the stream is never ended
\* by a frame; a frame that is no JSON text, or the JSON text of null, a
\* scalar or an array, yields the empty event list and leaves the aggregate as
\* it was; and every frame of the stream is parsed in its turn.
C14_ParseNeverThrows ==
  /\ call.fn = "parseSSELine" =>
       /\ call.status # "threw"
       /\ call.status = "done" => call.pos = Len(call.frames)
       /\ \A a \in Adapters : \A f \in Frames(a) :
            /\ ~parseSSELine(a, f).threw
            /\ Malformed(f) => parseSSELine(a, f).events = <<>>
       /\ call.pos >= 1 /\ Malformed(call.frames[call.pos]) => call.last = <<>>

\* a stream whose first frame was malformed was read to its end, and the frame
\* after the malformed one contributed its events
C14_Witness ==
  /\ call.fn = "parseSSELine"
  /\ call.status = "done"
  /\ Len(call.frames) = 2
  /\ Malformed(call.frames[1])
  /\ JSONparse(call.frames[1]).threw
  /\ call.events # <<>>

\* C15: a sendMessage call whose channel id is not found, or whose API key
\* cannot be decrypted, emits STREAM_ERROR and returns in that same step: it
\* issues no stream request, has not read the history store and leaves it as
\* it was (no user message), registers no handle, and never does anything later.
C15_ConfigErrorOnlyReports ==
  /\ [][\A s \in Sends, c \in Convs, channel, key, rd, ap \in BOOLEAN :
          SendMessage(s, c, channel, key, rd, ap) /\ (~channel \/ ~key) =>
            /\ sends'[s] = [SendTerminal([InitSend EXCEPT !.conv = c], "error", None)
                              EXCEPT !.pc = "done"]
            /\ \A t \in Sends \ {s} : sends'[t] = sends[t]
            /\ store' = store
            /\ activeControllers' = activeControllers
       ]_vars
  /\ [](\A s \in Sends :
          sends[s].pc = "done" /\ ~sends[s].historyRead =>
            /\ sends[s].terminal = <<[type |-> "error", messageId |-> None]>>
            /\ sends[s].cycles = 0
            /\ ~sends[s].late
            /\ \A c \in Convs :
                 /\ activeControllers[c] # s
                 /\ \A i \in DOMAIN store[c] : SenderOf(store[c][i].id) # s)

\* a send failed on its configuration while an earlier send of the same
\* conversation is streaming: the history and the registry hold only what the
\* earlier send put there
C15_Witness ==
  \E s, t \in Sends :
    /\ sends[s].pc = "done" /\ ~sends[s].historyRead
    /\ sends[s].terminal = <<[type |-> "error", messageId |-> None]>>
    /\ sends[t].pc = "stream" /\ sends[t].conv = sends[s].conv
    /\ activeControllers[sends[s].conv] = t
    /\ Len(store[sends[s].conv]) = 1

\* C16: when streamSSE (or building its request) fails and the send's handle
\* has not been signalled, sendMessage emits STREAM_ERROR and returns: it
\* appends nothing to the history store, whatever has accumulated, and issues
\* no further stream request; a send that emitted STREAM_ERROR has persisted no
\* assistant message, and a partial (stopped) message is persisted only by a
\* send whose handle was signalled.
C16_FailureNotPersisted ==
  /\ [][\A s \in Sends, ap \in BOOLEAN :
          StreamThrow(s, ap) /\ ~Aborted(sends[s]) =>
            /\ sends'[s].pc = "done"
            /\ sends'[s].terminal = <<[type |-> "error", messageId |-> None]>>
            /\ sends'[s].cycles = sends[s].cycles
            /\ sends'[s].accumulatedContent = sends[s].accumulatedContent
            /\ store' = store
       ]_vars
  /\ [](\A s \in Sends :
          /\ (\E i \in DOMAIN sends[s].terminal : sends[s].terminal[i].type = "error")
               => AssistantMsgsOf(s) = {}
          /\ Ended(s) => \A p \in AssistantMsgsOf(s) :
                            MsgAt(p).stopped => Aborted(sends[s]))

\* the stream of a later round failed, with content accumulated and the handle
\* not signalled: STREAM_ERROR, nothing persisted
C16_Witness ==
  \E s \in Sends :
    /\ sends[s].pc = "done"
    /\ ~Aborted(sends[s])
    /\ sends[s].cycles >= 2
    /\ sends[s].accumulatedContent # <<>>
    /\ sends[s].terminal = <<[type |-> "error", messageId |-> None]>>
    /\ AssistantMsgsOf(s) = {}

\* the step of s that leaves round MAX_TOOL_ROUNDS after the provider answered
\* it with stopReason 'tool_use' and tool calls; ap1, ap2: the appends of the
\* normal path and of the catch block succeed
LastRoundToolUseStep(s, ap1, ap2) ==
  /\ sends[s].round = MAX_TOOL_ROUNDS
  /\ \/ /\ sends[s].toolCalls # <<>>
        /\ StreamReturn(s, "tool_use", ap1, ap2)
     \/ \E threw \in BOOLEAN : ToolReturn(s, threw, ap1, ap2)
  /\ sends'[s].pc # "tool"

\* C17 (amended): when the provider still answers round MAX_TOOL_ROUNDS with
\* stopReason 'tool_use' and tool calls, sendMessage issues no further request
\* and finishes as it does after a round without tool calls: with
\* non-whitespace content accumulated over the rounds it appends that content as
\* one assistant message without the stopped flag and emits STREAM_COMPLETE with
\* its id; with empty or whitespace-only content it appends nothing and emits
\* STREAM_COMPLETE without a messageId; it emits STREAM_ERROR only when that
\* append fails.
C17_RoundLimitFinalizes ==
  [][\A s \in Sends, ap1, ap2 \in BOOLEAN :
       LastRoundToolUseStep(s, ap1, ap2) =>
         LET content == sends[s].accumulatedContent IN
         /\ Ended(s)'
         /\ sends'[s].cycles = MAX_TOOL_ROUNDS
         /\ IF Trim(content) = <<>>
            THEN /\ sends'[s].terminal = <<Complete(None)>>
                 /\ store' = store
            ELSE IF ap1
            THEN /\ sends'[s].terminal = <<Complete(AssistantMsgId(s))>>
                 /\ store' = [store EXCEPT ![sends[s].conv] =
                                Append(@, AssistantMessage(AssistantMsgId(s), content,
                                                           <<>>, FALSE))]
            ELSE /\ \A p \in AssistantMsgsOf(s)' : MsgAt(p)'.stopped
                 /\ ~Aborted(sends[s]) =>
                      /\ sends'[s].terminal = <<[type |-> "error", messageId |-> None]>>
                      /\ store' = store
     ]_vars

\* round MAX_TOOL_ROUNDS was answered with tool_use, its memory tool call was
\* executed, and the send ended with STREAM_COMPLETE and its content persisted
\* as a normal message
C17_Witness ==
  \E s \in Sends :
    /\ sends[s].pc = "done"
    /\ sends[s].cycles = MAX_TOOL_ROUNDS
    /\ sends[s].activity.type = "result"
    /\ sends[s].activity.toolCallId \div 10 = MAX_TOOL_ROUNDS
    /\ sends[s].terminal = <<Complete(AssistantMsgId(s))>>
    /\ \E p \in AssistantMsgsOf(s) :
         ~MsgAt(p).stopped /\ MsgAt(p).content = sends[s].accumulatedContent

\* C17 as stated: after round MAX_TOOL_ROUNDS was answered with tool_use and
\* tool calls the send emits STREAM_COMPLETE, not STREAM_ERROR, and has
\* persisted the accumulated content as a normal (non-stopped) assistant message.
C17_RoundLimitPersists ==
  [][\A s \in Sends, ap1, ap2 \in BOOLEAN :
       LastRoundToolUseStep(s, ap1, ap2) =>
         /\ sends'[s].terminal = <<Complete(AssistantMsgId(s))>>
         /\ \E p \in AssistantMsgsOf(s)' :
              ~MsgAt(p)'.stopped /\ MsgAt(p)'.content = sends[s].accumulatedContent
     ]_vars

\* the concatenation of the deltas of a sequence of events
Deltas(events) == [i \in 1..Len(events) |-> events[i].delta]

IsPrefix(a, b) == Len(a) <= Len(b) /\ a = SubSeq(b, 1, Len(a))

\* C18: within one invocation accumulatedContent is at every moment the
\* concatenation, in arrival order, of the chunk deltas of all rounds so far,
\* and accumulatedReasoning that of the reasoning deltas; both only grow by
\* appending; and the assistant message persisted carries exactly these.
C18_AccumulatesAcrossRounds ==
  /\ [](\A s \in Sends :
          /\ sends[s].accumulatedContent = Deltas(sends[s].chunks)
          /\ sends[s].accumulatedReasoning = Deltas(sends[s].reasonings)
          /\ \A p \in AssistantMsgsOf(s) :
               /\ Ended(s)
               /\ MsgAt(p).content = Deltas(sends[s].chunks)
               /\ MsgAt(p).reasoning = Deltas(sends[s].reasonings))
  /\ [][\A s \in Sends :
          /\ IsPrefix(sends[s].accumulatedContent, sends'[s].accumulatedContent)
          /\ IsPrefix(sends[s].accumulatedReasoning, sends'[s].accumulatedReasoning)
       ]_vars

\* a send received two different chunk deltas in two different rounds before
\* the last one and reasoning deltas in two different rounds, and persisted a
\* message carrying all of them
C18_Witness ==
  \E s \in Sends :
    /\ sends[s].pc = "done"
    /\ Len(sends[s].reasonings) = 2
    /\ sends[s].reasonings[1].round < sends[s].reasonings[2].round
    /\ sends[s].reasonings[1].delta # sends[s].reasonings[2].delta
    /\ Len(sends[s].chunks) = 2
    /\ sends[s].chunks[1].round < sends[s].chunks[2].round
    /\ sends[s].chunks[2].round < sends[s].cycles
    /\ sends[s].chunks[1].delta # sends[s].chunks[2].delta
    /\ sends[s].accumulatedContent = <<sends[s].chunks[1].delta, sends[s].chunks[2].delta>>
    /\ \E p \in AssistantMsgsOf(s) :
         /\ MsgAt(p).content = sends[s].accumulatedContent
         /\ MsgAt(p).reasoning = sends[s].accumulatedReasoning

\* the ToolResult announced by the last STREAM_TOOL_ACTIVITY event of a send
AnnouncedResult(snd) ==
  [toolCallId |-> snd.activity.toolCallId, content |-> snd.activity.result,
   isError |-> snd.activity.isError]

\* the tool results carried by the continuation messages of a request
ResultsIn(request) ==
  {request[k].results[j] :
     <<k, j>> \in {kj \in (DOMAIN request) \X (1..MaxCalls) :
                     kj[2] \in DOMAIN request[kj[1]].results}}

\* C19 (amended): every ToolResult produced by executing a tool call in a round
\* before round MAX_TOOL_ROUNDS is included, with the other results of its
\* round and after those of the earlier rounds, in the continuation messages of
\* the next stream request of that send, which is issued as soon as the last
\* tool call of the round has been executed; the results of round
\* MAX_TOOL_ROUNDS are sent in no request, the send ends without another one.
C19_ResultsPairedBack ==
  [][\A s \in Sends :
       ToolStep(s) =>
         LET R == AnnouncedResult(sends'[s])
             results == Append(sends[s].toolResults, R)
         IN /\ sends'[s].activity.type = "result"
            /\ R.toolCallId = sends[s].toolCalls[sends[s].toolIdx].id
            /\ sends'[s].pc = "tool" => sends'[s].toolResults = results
            /\ sends'[s].pc # "tool" /\ sends[s].round < MAX_TOOL_ROUNDS =>
                 /\ sends'[s].pc = "stream"
                 /\ sends'[s].cycles = sends[s].cycles + 1
                 /\ sends'[s].request =
                      sends[s].request
                        \o <<[role |-> "assistant", content |-> RoundContent(sends[s]),
                              toolCalls |-> sends[s].toolCalls, results |-> <<>>],
                             [role |-> "tool", content |-> <<>>, toolCalls |-> <<>>,
                              results |-> results]>>
                 /\ R \in ResultsIn(sends'[s].request)
            /\ sends'[s].pc # "tool" /\ sends[s].round >= MAX_TOOL_ROUNDS =>
                 /\ Ended(s)'
                 /\ sends'[s].cycles = sends[s].cycles
     ]_vars

\* the request of a third round carries the tool results of the first and of
\* the second round
C19_Witness ==
  \E s \in Sends :
    /\ sends[s].pc = "stream"
    /\ sends[s].round = 3
    /\ Len(sends[s].request) = 4
    /\ sends[s].request[2].results # <<>>
    /\ sends[s].request[4].results # <<>>
    /\ sends[s].request[2].results[1].toolCallId # sends[s].request[4].results[1].toolCallId

\* C19 as stated: once the last tool call of a round has been executed, a
\* stream request follows whose continuation messages include the results of
\* that round.
C19_EveryResultSent ==
  [][\A s \in Sends :
       ToolStep(s) /\ sends'[s].pc # "tool" =>
         /\ sends'[s].pc = "stream"
         /\ AnnouncedResult(sends'[s]) \in ResultsIn(sends'[s].request)
     ]_vars

\* the body of a request, as the provider reads it
BodyOf(request) == JSONparse(request.body).value

\* the body switches extended reasoning off: thinking.type 'disabled' for the
\* Anthropic API, thinkingConfig.thinkingBudget 0 for the Google API
DisablesReasoning(adapter, body) ==
  IF adapter = "anthropic"
  THEN Is(OptGet(Get(body, "thinking"), "type"), "disabled")
  ELSE OptGet(OptGet(Get(body, "generationConfig"), "thinkingConfig"),
              "thinkingBudget") = Num(0)

\* the body switches extended reasoning on
EnablesReasoning(adapter, body) ==
  IF adapter = "anthropic"
  THEN Is(OptGet(Get(body, "thinking"), "type"), "enabled")
  ELSE LET config == OptGet(OptGet(Get(body, "generationConfig"), "thinkingConfig"),
                            "thinkingBudget")
       IN Truthy(config)
          \/ Truthy(OptGet(OptGet(Get(body, "generationConfig"), "thinkingConfig"),
                           "includeThoughts"))

\* C20: for either adapter the request built by buildTitleRequest disables
\* extended reasoning in its body, whatever the thinkingEnabled setting of the
\* chat, and carries no setting that enables it.
C20_TitleDisablesReasoning ==
  call.fn = "buildTitleRequest" /\ call.status = "done" =>
    /\ DisablesReasoning(call.adapter, BodyOf(call.result))
    /\ ~EnablesReasoning(call.adapter, BodyOf(call.result))

\* C20, the part that holds: the Anthropic title request disables extended
\* reasoning, and no title request of either adapter enables it.
C20_TitleNeverEnablesReasoning ==
  call.fn = "buildTitleRequest" /\ call.status = "done" =>
    /\ call.adapter = "anthropic" =>
         DisablesReasoning(call.adapter, BodyOf(call.result))
    /\ ~EnablesReasoning(call.adapter, BodyOf(call.result))

(* ---------------------------------------------------------------------- *)
(* C21 .. C30                                                              *)
(* ---------------------------------------------------------------------- *)

\* the memory client is running, or has run, a call
MemCall == call.fn = "executeMemoryToolCall" /\ call.status # "idle"

\* C21: callApi issues at most RETRIES + 1 = 2 HTTP requests per call. A request
\* that succeeds ends the call at once with no further request; a request that
\* fails (fetch throws, the timeout aborts it, the status is not 2xx) is followed
\* by a retry while attempts are left, after a wait of 100 ms times the number
\* of the failed attempt; there is no wait after the last attempt, and when it
\* fails callApi throws the error of that attempt.
C21_BoundedRetries ==
  /\ [](MemCall /\ call.memoryConfig.apiKey # "" =>
          /\ call.fetches <= RETRIES + 1
          /\ call.fetches = call.attempt + 1
          /\ \A i \in DOMAIN call.waits : call.waits[i] = 100 * i
          /\ call.status \in {"fetch", "json", "text"} =>
                Len(call.waits) = call.attempt /\ ~call.slept
          /\ call.status = "backoff" =>
                /\ call.attempt < RETRIES
                /\ Len(call.waits) = call.attempt + 1
                /\ call.error.attempt = call.attempt
          /\ call.status = "done" =>
                /\ Len(call.waits) = call.fetches - 1
                /\ ~call.slept
                /\ IF ~call.returned
                   THEN /\ call.result.isError
                        /\ call.fetches = RETRIES + 1
                        /\ call.error.attempt = RETRIES
                   ELSE IF call.result.isError
                   THEN call.error = [attempt |-> call.attempt, kind |-> "other"]
                   ELSE call.error.attempt = call.attempt - 1)
  /\ [][\A outcome \in FetchOutcomes \cup JsonOutcomes \cup TextOutcomes :
          FetchSettles(outcome) \/ BodySettles(outcome) =>
             LET s == Awaiting
                 same == call'.toolCall = call.toolCall
                 ends(isError) ==
                   /\ Len(call'.log) > Len(call.log)
                   /\ call'.log[Len(call.log) + 1] =
                         [type |-> "end", id |-> call.toolCall.id]
                   /\ sends'[s].activity =
                         [type |-> "result", toolCallId |-> call.toolCall.id,
                          result |-> IF isError THEN "failed" ELSE "result",
                          isError |-> isError]
                   /\ same => /\ call'.status = "done"
                              /\ call'.result.isError = isError
                              /\ call'.fetches = call.fetches
                              /\ call'.waits = call.waits
                   /\ ~same => /\ call'.status = "fetch"
                               /\ call'.fetches = 1
                               /\ call'.waits = <<>>
                               /\ Len(call'.log) = Len(call.log) + 2
             IN IF outcome \in {"2xx", "non2xx"}
                THEN /\ call' = [call EXCEPT !.status =
                                   IF outcome = "2xx" THEN "json" ELSE "text"]
                     /\ sends' = sends
                ELSE IF outcome \in {"ok", "malformed"}
                THEN /\ ends(MappingThrows(call.toolCall.name, outcome))
                     /\ same => call'.returned
                ELSE IF call.attempt < RETRIES
                THEN /\ call' = [call EXCEPT
                                   !.status = "backoff", !.slept = TRUE,
                                   !.error = [attempt |-> call.attempt,
                                              kind |-> outcome],
                                   !.waits = Append(@, 100 * (call.attempt + 1))]
                     /\ sends' = sends
                ELSE /\ ends(TRUE)
                     /\ same => /\ ~call'.returned
                                /\ call'.error = [attempt |-> call.attempt,
                                                  kind |-> outcome]]_vars
  /\ [][BackoffElapsed =>
          /\ call'.status = "fetch"
          /\ call'.fetches = call.fetches + 1
          /\ call'.toolCall = call.toolCall
          /\ sends' = sends]_vars

\* C21 witness: both attempts of a call failed, the second by a timeout; one
\* backoff of 100 ms lay between them and the timeout is the error thrown.
C21_Witness ==
  /\ MemCall
  /\ call.status = "done"
  /\ call.fetches = RETRIES + 1
  /\ call.waits = <<100>>
  /\ call.error = [attempt |-> RETRIES, kind |-> "timeout"]
  /\ call.result.isError

\* C22: with an empty API key a memory tool call fails with the 'not set' error
\* before any HTTP request and any backoff; executeMemoryToolCall returns it as
\* a ToolResult with isError, which the loop of sendMessage takes like any
\* other result: it is announced, collected, and the send goes on with no
\* terminal event emitted by that step.
C22_MissingKeyFailsLocally ==
  /\ [](call.fn = "executeMemoryToolCall" /\ call.memoryConfig.apiKey = "" =>
          /\ call.fetches = 0
          /\ call.waits = <<>>
          /\ call.status \in {"idle", "done"}
          /\ call.status = "done" =>
                /\ call.error.kind = "not set"
                /\ call.result = [toolCallId |-> call.toolCall.id,
                                  content |-> "failed", isError |-> TRUE])
  /\ [][\A s \in Sends :
          /\ StreamReturnToTools(s, "tool_use")
          /\ sends[s].toolCalls # <<>>
          /\ call.memoryConfig.apiKey = ""
          => LET toolCalls == sends[s].toolCalls
                 failed == [i \in 1..Len(toolCalls) |->
                              [toolCallId |-> toolCalls[i].id,
                               content |-> "failed", isError |-> TRUE]]
                 request == sends'[s].request
             IN /\ call'.status = "done"
                /\ call'.fetches = 0
                /\ call'.toolCall = toolCalls[Len(toolCalls)]
                /\ Len(call'.log) = Len(call.log) + 2 * Len(toolCalls)
                /\ sends'[s].pc = "stream"
                /\ sends'[s].round = sends[s].round + 1
                /\ sends'[s].terminal = sends[s].terminal
                /\ sends'[s].toolResults = failed
                /\ sends'[s].activity =
                      [type |-> "result",
                       toolCallId |-> toolCalls[Len(toolCalls)].id,
                       result |-> "failed", isError |-> TRUE]
                /\ request # <<>>
                /\ request[Len(request)].results = failed]_vars

\* C22 witness: without an API key a tool call has failed locally and its
\* error result has gone out in the request of the next round.
C22_Witness ==
  /\ call.memoryConfig.apiKey = ""
  /\ call.fn = "executeMemoryToolCall"
  /\ call.status = "done"
  /\ call.fetches = 0
  /\ \E s \in Sends :
        /\ sends[s].pc = "stream"
        /\ sends[s].round = 2
        /\ sends[s].activity.isError
        /\ sends[s].request # <<>>
        /\ call.result \in {sends[s].request[2].results[i] :
                              i \in DOMAIN sends[s].request[2].results}

\* C23: when a round's stream returns, a tool is executed or a further request
\* made only if the stop reason is 'tool_use' and the returned tool calls are
\* not empty. In every other case the send ends in that same step: no tool
\* result is announced, no further request is built, and what is stored and
\* reported is the content accumulated so far.
C23_LoopContinuesOnlyOnToolUse ==
  [][\A s \in Sends :
       /\ \A stopReason \in StopReasons, ap1, ap2 \in BOOLEAN :
            \/ StreamReturn(s, stopReason, ap1, ap2)
            \/ ap1 /\ ap2 /\ StreamReturnToTools(s, stopReason)
            => LET toolCalls == StreamToolCalls(stopReason, sends[s].toolCalls)
                   content == sends[s].accumulatedContent
               IN stopReason # "tool_use" \/ toolCalls = <<>> =>
                    /\ Ended(s)'
                    /\ call' = call
                    /\ sends'[s].cycles = sends[s].cycles
                    /\ sends'[s].activity = sends[s].activity
                    /\ sends'[s].accumulatedContent = content
                    /\ ap1 =>
                         /\ sends'[s].pc = "done"
                         /\ IF Trim(content) # <<>>
                            THEN /\ sends'[s].terminal =
                                      <<Complete(AssistantMsgId(s))>>
                                 /\ store'[sends[s].conv] =
                                      Append(store[sends[s].conv],
                                             AssistantMessage(AssistantMsgId(s), content,
                                                sends[s].accumulatedReasoning, FALSE))
                            ELSE /\ sends'[s].terminal = <<Complete(None)>>
                                 /\ store' = store
       /\ sends[s].pc = "stream"
            /\ (sends'[s].pc = "tool" \/ sends'[s].cycles > sends[s].cycles)
          => /\ sends[s].toolCalls # <<>>
             /\ \/ \E ap1, ap2 \in BOOLEAN : StreamReturn(s, "tool_use", ap1, ap2)
                \/ StreamReturnToTools(s, "tool_use")]_vars

\* C23 witness: a stream has returned tool calls with a stop reason other than
\* 'tool_use', and the send ended after that one request with its content
\* stored and no tool result announced.
C23_Witness ==
  \E s \in Sends :
    /\ sends[s].pc = "done"
    /\ sends[s].cycles = 1
    /\ sends[s].activity.type = "start"
    /\ sends[s].terminal = <<Complete(AssistantMsgId(s))>>
    /\ \E i \in DOMAIN store[sends[s].conv] :
          /\ store[sends[s].conv][i].id = AssistantMsgId(s)
          /\ store[sends[s].conv][i].content = sends[s].accumulatedContent

\* the deltas of the events of round r, in arrival order
RoundDeltas(events, r) == Deltas(SelectSeq(events, LAMBDA e : e.round = r))

\* the send is inside the tool continuation loop
InLoop(s) == sends[s].pc \in {"stream", "tool"}

\* C24: the continuation list is empty until the first tool round has
\* completed; each completed tool round appends exactly two entries to it, the
\* assistant turn with that round's text and tool calls and then the tool turn
\* with that round's results, and changes no earlier entry; so during round k
\* the list, and the request built for round k, hold the turns of rounds
\* 1 .. k-1 in round order, and none in round 1.
C24_ContinuationGrowsByTwo ==
  /\ [](\A s \in Sends :
          /\ ~InLoop(s) => sends[s].continuationMessages = <<>>
          /\ InLoop(s) =>
               LET list == sends[s].continuationMessages IN
               /\ sends[s].request = list
               /\ Len(list) = 2 * (sends[s].round - 1)
               /\ \A j \in 1..(sends[s].round - 1) :
                    /\ list[2 * j - 1].role = "assistant"
                    /\ list[2 * j - 1].content = RoundDeltas(sends[s].chunks, j)
                    /\ list[2 * j - 1].toolCalls # <<>>
                    /\ \A i \in DOMAIN list[2 * j - 1].toolCalls :
                         list[2 * j - 1].toolCalls[i].id = 10 * j + i
                    /\ list[2 * j].role = "tool"
                    /\ \A i \in DOMAIN list[2 * j].results :
                         list[2 * j].results[i].toolCallId \div 10 = j)
  /\ [][\A s \in Sends :
          InLoop(s) /\ InLoop(s)' =>
            \/ sends'[s].continuationMessages = sends[s].continuationMessages
            \/ /\ sends'[s].round = sends[s].round + 1
               /\ Len(sends'[s].continuationMessages) =
                    Len(sends[s].continuationMessages) + 2
               /\ IsPrefix(sends[s].continuationMessages,
                           sends'[s].continuationMessages)
               /\ sends'[s].continuationMessages[Len(sends[s].continuationMessages) + 1]
                    .toolCalls = sends[s].toolCalls]_vars

\* C24 witness: the request of round 3 carries four entries: the assistant and
\* tool turns of round 1, then those of round 2.
C24_Witness ==
  \E s \in Sends :
    /\ sends[s].pc = "stream"
    /\ sends[s].round = 3
    /\ Len(sends[s].request) = 4
    /\ sends[s].request[1].toolCalls[1].id = 11
    /\ sends[s].request[2].results # <<>>
    /\ sends[s].request[3].toolCalls[1].id = 21
    /\ sends[s].request[4].role = "tool"

\* the ids of the tool executions of round r started so far, in starting order
Started(r) ==
  LET starts == SelectSeq(call.log, LAMBDA e : e.type = "start" /\ e.id \div 10 = r)
  IN [i \in 1..Len(starts) |-> starts[i].id]

CallIds(toolCalls) == [i \in 1..Len(toolCalls) |-> toolCalls[i].id]
ResultIds(results) == [i \in 1..Len(results) |-> results[i].toolCallId]

\* C25: the tool executions of a send never overlap: each one ends before the
\* next starts. Within a round they start in the order in which the stream
\* returned the tool calls, and the results are collected in that same order.
\* While a round's stream is running none of its tools has started, and when
\* the request of the next round is built every execution has ended.
C25_ToolsRunOneByOne ==
  /\ \A i \in DOMAIN call.log :
        IF i % 2 = 1
        THEN call.log[i].type = "start"
        ELSE call.log[i].type = "end" /\ call.log[i].id = call.log[i - 1].id
  /\ \A s \in Sends :
        InLoop(s) =>
          LET list == sends[s].continuationMessages
              ids == CallIds(sends[s].toolCalls)
          IN /\ \A j \in 1..(sends[s].round - 1) :
                  /\ Started(j) = CallIds(list[2 * j - 1].toolCalls)
                  /\ ResultIds(list[2 * j].results) = Started(j)
             /\ sends[s].pc = "stream" =>
                  /\ Len(call.log) % 2 = 0
                  /\ Started(sends[s].round) = <<>>
             /\ sends[s].pc = "tool" =>
                  /\ IsPrefix(Started(sends[s].round), ids)
                  /\ IsPrefix(ResultIds(sends[s].toolResults), Started(sends[s].round))
                  /\ Len(Started(sends[s].round)) - Len(sends[s].toolResults)
                        = (IF call.status = "idle" \/ call.toolCall.id #
                                 sends[s].toolCalls[sends[s].toolIdx].id
                           THEN 0 ELSE 1)

\* C25 witness: a stream returned two tool calls; the first has been executed
\* and its result collected, the second is in flight, waiting for its fetch.
C25_Witness ==
  \E s \in Sends :
    /\ sends[s].pc = "tool"
    /\ Len(sends[s].toolCalls) = 2
    /\ sends[s].toolIdx = 2
    /\ ResultIds(sends[s].toolResults) = <<sends[s].toolCalls[1].id>>
    /\ call.status = "fetch"
    /\ call.toolCall = sends[s].toolCalls[2]
    /\ Len(call.log) = 3

\* the live events among those delivered, in delivery order
LiveEvents(delivered) ==
  SelectSeq(delivered,
            LAMBDA e : e.type \in {"chunk", "reasoning", "tool_call_start"})

\* the message the renderer is to receive for a live event
MessageFor(event) ==
  CASE event.type = "chunk" -> IpcMessage("STREAM_CHUNK", event.data, None, "")
    [] event.type = "reasoning" -> IpcMessage("STREAM_REASONING", event.data, None, "")
    [] event.type = "tool_call_start" ->
         IpcMessage("STREAM_TOOL_ACTIVITY", "", event.toolCallId, event.toolName)

\* C26: at every moment the messages sent to the renderer are, one for one and
\* in the same order, the chunk, reasoning and tool_call_start events the
\* stream reader has delivered so far: each is sent in the step that handles
\* it, none is dropped, repeated, reordered or held back, and a
\* tool_call_delta or done event produces no message.
C26_LiveEventsForwardedInOrder ==
  /\ [](LET live == LiveEvents(call.delivered) IN
        /\ Len(call.forwarded) = Len(live)
        /\ \A i \in DOMAIN live : call.forwarded[i] = MessageFor(live[i]))
  /\ [][\A s \in Sends : \A event \in NextEvents(sends[s]) :
          OnEvent(s, event) =>
            call'.forwarded =
              IF event.type \in {"tool_call_delta", "done"}
              THEN call.forwarded
              ELSE Append(call.forwarded, MessageFor(event))]_vars

\* C26 witness: a tool call's start, its argument delta and a chunk were
\* delivered in this order; the renderer received the start and the chunk in
\* that order and nothing for the argument delta.
C26_Witness ==
  /\ call.fn = "streamSSE"
  /\ Len(call.delivered) = 3
  /\ call.delivered[1].type = "tool_call_start"
  /\ call.delivered[2].type = "tool_call_delta"
  /\ call.delivered[3].type = "chunk"
  /\ Len(call.forwarded) = 2
  /\ call.forwarded[1].channel = "STREAM_TOOL_ACTIVITY"
  /\ call.forwarded[2].channel = "STREAM_CHUNK"

\* the catch block of s has handled an exception
Handled(s) == Ended(s) /\ call.fn = "catch" /\ call.error # "none"

\* C27: an exception that reaches the catch block is handled as a cancellation
\* exactly if the signal has fired by then, whatever the kind of the error: with
\* the signal fired the send ends in STREAM_COMPLETE, also for a transport
\* failure; with the signal not fired it ends in STREAM_ERROR, also for an
\* AbortError.
C27_BySignalNotErrorType ==
  \A s \in Sends :
    Handled(s) =>
      /\ Len(sends[s].terminal) = 1
      /\ sends[s].terminal[1].type = (IF call.aborted THEN "complete" ELSE "error")

\* C27, for the invocations that returned: it holds whenever the store accepted
\* the append of the partial message.
C27_ReturnedBySignalNotErrorType ==
  \A s \in Sends :
    Handled(s) /\ sends[s].pc = "done" =>
      /\ Len(sends[s].terminal) = 1
      /\ sends[s].terminal[1].type = (IF call.aborted THEN "complete" ELSE "error")
      /\ call.aborted = Aborted(sends[s])

\* C28: when a send registers its handle for a conversation id that is mapped
\* to the handle of an earlier send, the mapping is overwritten and the earlier
\* send is left as it was, its signal not fired; afterwards stopGeneration for
\* that id fires the signal of the mapped handle only and leaves the earlier
\* send untouched, which runs on.
C28_RegisterOverwrites ==
  [][/\ \A s \in Sends, t \in Sends :
          /\ s # t
          /\ sends[s].pc = "enrich" /\ sends'[s].pc # "enrich"
          /\ activeControllers[sends[s].conv] = t
          => /\ sends'[t] = sends[t]
             /\ activeControllers'[sends[s].conv] # t
             /\ sends'[s].pc = "proxy" => activeControllers'[sends[s].conv] = s
     /\ \A c \in Convs, t \in Sends :
          stopGeneration(c) /\ activeControllers[c] # t => sends'[t] = sends[t]
    ]_vars

\* C28 witness: two sends of one conversation are streaming; the later one
\* overwrote the mapping of the earlier one and was then stopped through
\* stopGeneration, while the earlier one streams on with its signal not fired
\* and no mapping through which it could be stopped.
C28_Witness ==
  \E s \in Sends, t \in Sends :
    /\ s # t
    /\ sends[s].conv = sends[t].conv
    /\ sends[s].pc = "stream" /\ Aborted(sends[s])
    /\ sends[t].pc = "stream" /\ ~Aborted(sends[t])
    /\ activeControllers[sends[t].conv] = None

\* C29: when updateConversationMeta throws after the assistant message was
\* appended, the step that appended the message still ends the send with
\* STREAM_COMPLETE carrying that message's id and with no STREAM_ERROR, and the
\* message stays in the store: on the normal path and in the cancellation
\* branch of the catch block alike.
C29_MetaFailureSwallowed ==
  /\ [](call.fn = "updateConversationMeta" =>
          /\ call.calls <= 1
          /\ \A s \in Sends :
               Ended(s) /\ call.failed > 0 =>
                 /\ sends[s].pc = "done"
                 /\ Cardinality(AssistantMsgsOf(s)) = 1
                 /\ \A p \in AssistantMsgsOf(s) :
                      /\ sends[s].terminal = <<Complete(MsgAt(p).id)>>
                      /\ MsgAt(p).content = sends[s].accumulatedContent
                      /\ MsgAt(p).stopped = Aborted(sends[s]))
  /\ [][call.fn = "updateConversationMeta" /\ call'.failed > call.failed =>
          \E s \in Sends :
             /\ Len(store'[sends[s].conv]) = Len(store[sends[s].conv]) + 1
             /\ sends'[s].terminal =
                  <<Complete(store'[sends[s].conv][Len(store'[sends[s].conv])].id)>>
       ]_vars

\* C29 witness: a stopped send appended its partial message, the index update
\* that followed threw, and the send ended with STREAM_COMPLETE for that message.
C29_Witness ==
  /\ call.fn = "updateConversationMeta"
  /\ call.failed = 1
  /\ \E s \in Sends :
       /\ sends[s].pc = "done"
       /\ Aborted(sends[s])
       /\ sends[s].terminal = <<Complete(PartialMsgId(s))>>
       /\ \E p \in AssistantMsgsOf(s) : MsgAt(p).id = PartialMsgId(s)

\* contextDividers and contextLength a send may have been called with
ContextInputs ==
  [contextDividers : {<<>>, <<2>>, <<1>>},
   contextLength : {ContextLengthUndefined, ContextLengthInfinite,
                    ContextLengthNumber(1)}]

\* the messages of the request send s built last, had it been called with input
RequestOf(s, adapter, input) ==
  RequestMessages(adapter,
                  filterHistory(sends[s].history, input.contextDividers,
                                input.contextLength),
                  Message(UserMsgId(s), "user", <<>>, FALSE),
                  sends[s].request)

\* the positions of seq that hold the message with this id
Occurrences(seq, id) == {i \in DOMAIN seq : seq[i].id = id}

\* C30: sendMessage reads the history and only then appends the user message,
\* in one step that ends before any request is built: the history a send holds
\* never contains its own user message, and whenever it is in the loop the
\* store does. So the request of every round, whose messages are the filtered
\* history, then the current user message, then the continuation messages,
\* contains the current user message exactly once.
C30_UserMessageOnceInRequest ==
  /\ [](\A s \in Sends :
          /\ Occurrences(sends[s].history, UserMsgId(s)) = {}
          /\ InLoop(s) =>
               /\ Cardinality(Occurrences(store[sends[s].conv], UserMsgId(s))) = 1
               /\ \A adapter \in Adapters, input \in ContextInputs :
                    LET messages == RequestOf(s, adapter, input) IN
                    Cardinality({i \in DOMAIN messages :
                                    messages[i].from = UserMsgId(s)}) = 1)
  /\ [][\A s \in Sends :
          /\ sends[s].pc = "idle" /\ sends'[s].pc = "enrich" =>
               /\ sends'[s].history = store[sends'[s].conv]
               /\ store'[sends'[s].conv] =
                    Append(store[sends'[s].conv],
                           Message(UserMsgId(s), "user", <<>>, FALSE))
               /\ sends'[s].cycles = 0
          /\ InLoop(s) /\ InLoop(s)' => sends'[s].history = sends[s].history]_vars

\* C30 witness: a send that found an earlier exchange in the store is in its
\* second round; its history is that exchange, and its request holds the
\* exchange, the current user message and the turns of round 1.
C30_Witness ==
  \E s \in Sends :
    /\ sends[s].pc = "stream"
    /\ sends[s].round = 2
    /\ Len(sends[s].history) = 2
    /\ Len(RequestOf(s, "anthropic",
                     [contextDividers |-> <<>>,
                      contextLength |-> ContextLengthUndefined])) = 5

(* ---------------------------------------------------------------------- *)
(* Claims C31 .. C39                                                       *)
(* ---------------------------------------------------------------------- *)

\* the value of the frame the reader parsed last
LastFrame == JSONparse(call.frames[call.pos]).value

\* an Anthropic event object as the protocol sends it: a content_block_start
\* has its content_block, a content_block_delta has a delta that holds the
\* payload field of its type, a message_delta has its delta
WellFormedAnthropic(event) ==
  LET type == Get(event, "type")
      delta == Get(event, "delta")
      payload == [text_delta |-> "text", thinking_delta |-> "thinking",
                  input_json_delta |-> "partial_json"]
  IN /\ event[1] = "object"
     /\ Is(type, "content_block_start") => Get(event, "content_block")[1] = "object"
     /\ Is(type, "content_block_delta") =>
          /\ delta[1] = "object"
          /\ \E k \in DOMAIN payload :
               /\ Is(Get(delta, "type"), k)
               /\ Get(delta, payload[k])[1] = "string"
     /\ Is(type, "message_delta") => delta[1] = "object"

\* the event kinds the discriminators of the Anthropic protocol give an event:
\* the event type, then the type tag of its content block or of its delta
AnthropicKinds(event) ==
  LET type == Get(event, "type")
      delta == Get(event, "delta")
      tag == OptGet(delta, "type")
  IN CASE Is(type, "content_block_start")
            /\ Is(OptGet(Get(event, "content_block"), "type"), "tool_use") ->
              <<"tool_call_start">>
       [] Is(type, "content_block_delta") /\ Is(tag, "text_delta")
            /\ Truthy(Get(delta, "text")) -> <<"chunk">>
       [] Is(type, "content_block_delta") /\ Is(tag, "thinking_delta")
            /\ Truthy(Get(delta, "thinking")) -> <<"reasoning">>
       [] Is(type, "content_block_delta") /\ Is(tag, "input_json_delta")
            /\ Truthy(Get(delta, "partial_json")) -> <<"tool_call_delta">>
       [] Is(type, "message_delta") /\ Truthy(Get(delta, "stop_reason")) -> <<"done">>
       [] OTHER -> <<>>

\* the parts of candidates[0] of a Google stream object (none when it has no content)
GooglePartsOf(data) ==
  LET parts == OptGet(OptGet(OptFirst(Get(data, "candidates")), "content"), "parts")
  IN IF parts[1] = "array" THEN parts[2] ELSE <<>>

\* a Google stream object as the protocol sends it: candidates is a list whose
\* first element is an object, with no content or with a list of part objects
WellFormedGoogle(data) ==
  LET candidates == Get(data, "candidates")
      content == OptGet(OptFirst(candidates), "content")
  IN /\ data[1] = "object"
     /\ candidates[1] = "array"
     /\ OptFirst(candidates)[1] = "object"
     /\ \/ content = Undefined
        \/ /\ content[1] = "object"
           /\ Get(content, "parts")[1] = "array"
           /\ \A i \in 1..Len(GooglePartsOf(data)) : GooglePartsOf(data)[i][1] = "object"

\* the event kinds the discriminators of the Google protocol give one part: a
\* functionCall (a tool call with its whole arguments), text with the thought
\* flag, plain text
GooglePartKinds(part) ==
  CASE Truthy(Get(part, "functionCall")) -> <<"tool_call_start", "tool_call_delta">>
    [] Truthy(Get(part, "text")) /\ Truthy(Get(part, "thought")) -> <<"reasoning">>
    [] Truthy(Get(part, "text")) -> <<"chunk">>
    [] OTHER -> <<>>

RECURSIVE GoogleDeltaKinds(_, _)
GoogleDeltaKinds(parts, i) ==
  IF i > Len(parts) THEN <<>>
  ELSE GooglePartKinds(parts[i]) \o GoogleDeltaKinds(parts, i + 1)

\* the terminal reason a frame carries: message_delta.stop_reason of Anthropic,
\* candidates[0].finishReason of Google; undefined when it carries none
TerminalReason(adapter, value) ==
  IF adapter = "anthropic"
  THEN IF Is(Get(value, "type"), "message_delta")
       THEN OptGet(Get(value, "delta"), "stop_reason") ELSE Undefined
  ELSE OptGet(OptFirst(Get(value, "candidates")), "finishReason")

WellFormed(adapter, value) ==
  IF adapter = "anthropic" THEN WellFormedAnthropic(value) ELSE WellFormedGoogle(value)

\* the kinds of the events of a well-formed frame, in order, by the discriminators
ExpectedKinds(adapter, value) ==
  IF adapter = "anthropic" THEN AnthropicKinds(value)
  ELSE GoogleDeltaKinds(GooglePartsOf(value), 1)
         \o (IF Truthy(TerminalReason(adapter, value)) THEN <<"done">> ELSE <<>>)

KindsOf(events) == [i \in 1..Len(events) |-> events[i].type]

\* the reader has just parsed a well-formed frame
ParsedWellFormed ==
  /\ call.fn = "parseSSELine"
  /\ call.pos >= 1
  /\ ~Malformed(call.frames[call.pos])
  /\ WellFormed(call.adapter, LastFrame)

\* C31: for both adapters parseSSELine classifies each well-formed frame by the
\* discriminators of the protocol: the events it returns are, in order, one
\* chunk per plain text delta, one reasoning per thinking/thought text, one
\* tool_call_start per tool-use start, one tool_call_delta per argument JSON,
\* and one done(stopReason) when the frame carries the terminal reason
\* (message_delta.stop_reason, candidates[0].finishReason); no delta gives
\* events of two kinds.
C31_ClassifiesByDiscriminators ==
  ParsedWellFormed =>
    /\ KindsOf(call.last) = ExpectedKinds(call.adapter, LastFrame)
    /\ Truthy(TerminalReason(call.adapter, LastFrame)) =>
         /\ call.last # <<>>
         /\ call.last[Len(call.last)]
              = DoneEvent(TerminalReason(call.adapter, LastFrame))

\* C31, the part that holds: the Anthropic adapter classifies every well-formed
\* frame as stated, terminal frame included; the Google adapter classifies the
\* parts of every well-formed frame as stated and no part under two kinds, and
\* returns no done event at all.
C31_ClassifiesDeltas ==
  ParsedWellFormed =>
    IF call.adapter = "anthropic"
    THEN /\ KindsOf(call.last) = AnthropicKinds(LastFrame)
         /\ Truthy(TerminalReason("anthropic", LastFrame)) =>
              call.last = <<DoneEvent(Get(Get(LastFrame, "delta"), "stop_reason"))>>
    ELSE KindsOf(call.last) = GoogleDeltaKinds(GooglePartsOf(LastFrame), 1)

\* the STREAM_COMPLETE events an invocation has emitted
CompleteEvents(s) ==
  {sends[s].terminal[i] : i \in {j \in DOMAIN sends[s].terminal :
                                   sends[s].terminal[j].type = "complete"}}

\* C32: a STREAM_COMPLETE event carries a messageId if and only if the
\* invocation that emitted it has appended an assistant message with exactly
\* that id to the history of its conversation; when the invocation has
\* persisted no assistant message the event carries no messageId.
C32_MessageIdIffPersisted ==
  \A s \in Sends : \A e \in CompleteEvents(s) :
    IF e.messageId # None
    THEN \E p \in AssistantMsgsOf(s) :
           /\ p[1] = sends[s].conv
           /\ MsgAt(p).id = e.messageId
    ELSE AssistantMsgsOf(s) = {}

\* both outcomes have happened: one invocation completed with blank content,
\* nothing persisted and no messageId; another was cancelled and completed
\* with the id of the partial message it persisted
C32_Witness ==
  \E s, t \in Sends :
    /\ sends[s].terminal = <<Complete(None)>>
    /\ sends[s].accumulatedContent = <<" ">>
    /\ ~Aborted(sends[s])
    /\ AssistantMsgsOf(s) = {}
    /\ Aborted(sends[t])
    /\ sends[t].terminal = <<Complete(PartialMsgId(t))>>
    /\ \E p \in AssistantMsgsOf(t) : MsgAt(p).id = PartialMsgId(t) /\ MsgAt(p).stopped

\* a send that has registered its handle, has not ended and was not stopped
Cancellable(s) == InFlight(s) /\ ~Aborted(sends[s])

\* C33: every in-flight send stays cancellable through the registry: while a
\* send has registered its handle and has neither ended nor been stopped, the
\* registry maps its conversation id to its handle, so stopGeneration of that
\* id aborts it; no other send's registration or completion takes the mapping
\* away.
C33_InFlightStaysCancellable ==
  \A s \in Sends : Cancellable(s) => activeControllers[sends[s].conv] = s

\* C33, the part that holds: a send stays cancellable through the registry as
\* long as no other invocation has gone beyond its first step for the same
\* conversation id.
C33_CancellableWhenAlone ==
  \A s \in Sends :
    ( /\ Cancellable(s)
      /\ \A t \in Sends \ {s} :
           sends[t].conv # sends[s].conv \/ sends[t].pc \in {"idle", "enrich"} )
    => activeControllers[sends[s].conv] = s

\* the toolCallIds of the tool_call_start events of an event list, in order
RECURSIVE StartIds(_)
StartIds(events) ==
  IF events = <<>> THEN <<>>
  ELSE (IF Head(events).type = "tool_call_start" THEN <<Head(events).toolCallId>>
                                                 ELSE <<>>)
         \o StartIds(Tail(events))

Distinct(seq) == \A i, j \in DOMAIN seq : i # j => seq[i] # seq[j]

\* the value of frame k of the stream
FrameValue(k) == JSONparse(call.frames[k]).value

\* the frames read so far that start an Anthropic tool_use block
ToolUseFrames ==
  {k \in 1..call.pos :
     /\ Is(Get(FrameValue(k), "type"), "content_block_start")
     /\ Is(OptGet(Get(FrameValue(k), "content_block"), "type"), "tool_use")}

\* the tool calls the provider has sent are distinct calls: Anthropic gives every
\* tool_use block an id of its own; every functionCall part of a Google
\* response is a call of its own
DistinctProviderCalls ==
  call.adapter = "anthropic" =>
    /\ \A k \in ToolUseFrames : Truthy(Get(Get(FrameValue(k), "content_block"), "id"))
    /\ \A k, l \in ToolUseFrames :
         k # l => Get(Get(FrameValue(k), "content_block"), "id")
                    # Get(Get(FrameValue(l), "content_block"), "id")

\* the names of the functionCall parts of the Google frames read so far
RECURSIVE FunctionNames(_)
FunctionNames(k) ==
  IF k = 0 THEN <<>>
  ELSE FunctionNames(k - 1)
         \o (IF ~Malformed(call.frames[k]) /\ WellFormedGoogle(FrameValue(k))
             THEN LET parts == GooglePartsOf(FrameValue(k))
                      calls == SelectSeq(parts,
                                 LAMBDA p : Truthy(Get(p, "functionCall")))
                  IN [i \in 1..Len(calls) |-> Get(Get(calls[i], "functionCall"), "name")]
             ELSE <<>>)

\* C34: distinct tool calls within one stream get distinct toolCallIds from the
\* adapter: the tool_call_start events of a stream carry pairwise different
\* ids, for the Google adapter also when two functionCall parts have the same
\* function name.
C34_DistinctToolCallIds ==
  call.fn = "parseSSELine" /\ DistinctProviderCalls =>
    Distinct(StartIds(call.events))

\* C34, the part that holds: the ids are pairwise different for the Anthropic
\* adapter, and for the Google adapter as long as no function name occurs twice
\* in the stream.
C34_DistinctUnlessSameName ==
  ( /\ call.fn = "parseSSELine"
    /\ DistinctProviderCalls
    /\ call.adapter = "google" => Distinct(FunctionNames(call.pos)) )
  => Distinct(StartIds(call.events))

\* the assistant messages in the history store
AssistantMsgs == UNION {AssistantMsgsOf(s) : s \in Sends}

\* C35: every assistant message that sendMessage has appended to the history
\* store has content with at least one non-whitespace character, whether it was
\* saved on the normal path or on the cancellation path.
C35_NeverSavesBlank ==
  \A p \in AssistantMsgs : Trim(MsgAt(p).content) # <<>>

\* C35, the part that holds: a message saved on the normal path has a
\* non-whitespace character; a message saved on the cancellation path (stopped)
\* is not empty, but may consist of whitespace only.
C35_NeverSavesEmpty ==
  \A p \in AssistantMsgs :
    /\ MsgAt(p).content # <<>>
    /\ ~MsgAt(p).stopped => Trim(MsgAt(p).content) # <<>>

\* C36: once installUpdate has set the updater status to 'installing', no later
\* event changes the status away from 'installing': no autoUpdater event
\* (error, progress or any other) and no checkForUpdates or downloadUpdate
\* that fails after it. (An installUpdate that fails sets 'installing' and
\* 'error' within the one call.)
C36_InstallingStays ==
  [][call.fn = "updater" /\ call.currentStatus = "installing"
       => call'.currentStatus = "installing"]_vars

\* C36, the part that holds: while an installation is under way an autoUpdater
\* 'error' event leaves the status as it is, and so does a second call of
\* installUpdate.
C36_ErrorEventKeepsInstalling ==
  [][call.fn = "updater" /\ call.currentStatus = "installing"
       /\ (OnError \/ \E throws \in BOOLEAN : InstallUpdate(throws))
       => call'.currentStatus = "installing"]_vars

\* C37: an MCP server entry is saved with enabled = true only if the most
\* recent connection test succeeded and ran against exactly the configuration
\* being saved (transport type, command, args, env, url, headers); and as long
\* as the form shows a test result, that result is of the configuration now in
\* the fields, in create mode as in edit mode, also when the result arrived
\* after the fields were changed.
C37_EnabledOnlyIfTested ==
  call.fn = "McpServerForm" =>
    /\ call.saved.enabled =>
         /\ call.saved.lastTestResult = "ok"
         /\ call.resultFor = call.saved.connection
    /\ call.open /\ call.testResult = "ok" =>
         call.resultFor = buildEntry(call, FALSE).connection

\* C37, the part that holds: an entry is saved with enabled = true only if the
\* form showed a successful test result when it was saved.
C37_EnabledOnlyIfSomeTestSucceeded ==
  call.fn = "McpServerForm" /\ call.saved.enabled =>
    call.saved.lastTestResult = "ok"

\* the event that was recorded has been pressed again
PressedAgain ==
  /\ call.fn = "shortcut"
  /\ call.status = "compared"
  /\ call.pressed = call.e

\* C38: recording and matching a shortcut round-trip: for every keyboard event
\* e, whatever its key ('+' included) and its modifiers, for which
\* shortcutFromEvent(e) returns a string s, matchesShortcut(e, s) is true.
C38_RecordedShortcutMatches ==
  PressedAgain => call.matched

\* C38, the part that holds: the round trip succeeds for every event whose key
\* is not '+'.
C38_RecordedShortcutMatchesUnlessPlus ==
  PressedAgain /\ call.e.key # <<"+">> => call.matched

\* C39 (as stated): generateTitle never throws and settles with null or with
\* a non-empty title of at most MAX_TITLE_LENGTH characters, whatever the user
\* message, empty and whitespace-only ones included; for a message of at most
\* SHORT_MESSAGE_THRESHOLD characters after trimming no request is sent.
\* Violated: an empty or whitespace-only message is its own title, ''.
C39_NullOrNonEmptyTitle ==
  call.fn = "generateTitle" /\ call.status = "done" =>
    /\ ~call.threw
    /\ \/ call.result.null
       \/ /\ call.result.value # <<>>
          /\ Len(call.result.value) <= MAX_TITLE_LENGTH
    /\ Len(Trim(call.userMessage)) <= SHORT_MESSAGE_THRESHOLD =>
         call.fetches = 0

\* C39, the part that holds: the same, with the empty string allowed as the
\* title of a message that is empty after trimming, and only of such a message
C39_NullOrTitleUnlessBlank ==
  call.fn = "generateTitle" /\ call.status = "done" =>
    /\ ~call.threw
    /\ \/ call.result.null
       \/ /\ Len(call.result.value) <= MAX_TITLE_LENGTH
          /\ call.result.value = <<>> => Trim(call.userMessage) = <<>>
    /\ Len(Trim(call.userMessage)) <= SHORT_MESSAGE_THRESHOLD =>
         call.fetches = 0

====
